---------------------------- MODULE Spec2Model ----------------------------
(***************************************************************************)
(* Model of the point-cloud / terrain viewer:                              *)
(*   - the LAS header parser, point stream parser, coordinate normalizer   *)
(*     and LOD manager of src/src/test.js (PointCloudViewer);              *)
(*   - the elevation normalizer of src/src/utils/GeoTIFFLoader.js.         *)
(*                                                                         *)
(* JavaScript numbers are modelled by exact fractions n/d; d = 0 encodes   *)
(* the non-finite values (NaN, +Infinity, -Infinity).  The inputs used are *)
(* dyadic and small, for which float64 arithmetic is exact.  Negative zero *)
(* is not distinguished from zero.                                         *)
(***************************************************************************)
EXTENDS Integers, Sequences, FiniteSets, TLC

VARIABLES
    file,              \* the buffer handed to reader.onload (event.target.result)
    loadResult,        \* outcome of the last load: "none", "resolved", "headerError", "noPointsError"
    header,            \* loadLASFile: const header = parseLASHeader(dataView)
    points,            \* loadLASFile: const points = parseLASPoints(dataView, header)
    displayed,         \* currentPointCloudRef.current.geometry (Null: no point cloud)
    originalGeometry,  \* LODManager.originalGeometry
    currentLodLevel,   \* LODManager.currentLodLevel
    distance,          \* camera.position.distanceTo(controls.target)
    lodApplied,        \* whether the last updateLOD call ran applyLOD
    elevIn,            \* normalizeElevationData: data
    elevOut,           \* normalizeElevationData: returned array (Null: not called yet)
    cntPoints,         \* applyLOD: pointCount of the canonical geometry
    cntLevel,          \* applyLOD: this.currentLodLevel
    cntSampled,        \* applyLOD: sampledCount (Null: not computed yet)
    gridIn,            \* the raster handed to a terrain mesh builder (Null: none)
    meshOut,           \* the mesh the builder returned (Null: not built yet)
    raster,            \* the raster file handed to GeoTIFFLoader (Null: none)
    rasterOut,         \* how the load settled (Null: not loaded yet)
    tierCanonical,     \* LODManager.originalGeometry of a large cloud (Null: none)
    tierShown,         \* LODManager.pointCloud.geometry of a large cloud
    tierLevel,         \* LODManager.currentLodLevel
    tierDistance,      \* camera.position.distanceTo(controls.target)
    tierProduced,      \* per tier, the first buffer applyLOD produced for it since the load
    tierRevisited,     \* whether applyLOD has run again for a tier it had produced before
    tierTicked,        \* whether updateLOD has run on the cloud since the last load or camera move
    appIsLoading,      \* App: isLoading
    appGeotiffData,    \* App: geotiffData, as the number of the upload whose buffer it is (0: null)
    appHeightScale,    \* App: viewerSettings.heightScale
    appWireframe,      \* App: viewerSettings.wireframe
    appUploads,        \* uploads handed to handleFileLoad so far
    appStatus,         \* per upload: reading, readFailed, loading, loadFailed or built
    appLoads,          \* loadGeoTIFFData calls awaiting the loader
    appMeshes,         \* scene.meshes: the terrain meshes in creation order
    cogCache,          \* COGLoader.cache: entries in insertion order
    cogPending,        \* loadTileFromCOG calls awaiting their tile data
    cogReturned,       \* what the last call to return returned (Null: none yet)
    cogLoads,          \* cache misses so far; numbers the tile objects generated
    cogNextKey,        \* the next cache key not asked for yet
    cogEvicted,        \* the key evicted last (0: none)
    terrainTiles,      \* DynamicTerrainManager.terrainTiles: the keys that hold a mesh
    loadingTiles,      \* DynamicTerrainManager.loadingTiles
    lastCameraPosition, \* DynamicTerrainManager.lastCameraPosition
    tileLoads,         \* loadTile calls awaiting their tile data, in the order started
    sceneThrows,       \* whether the scene's add and remove throw
    lastRequired,      \* requiredTiles of the last updateTerrain that computed them
    lastCall,          \* the last call that got past its first check: updateTerrain, dispose, none
    terrainCalls       \* how many such calls there have been

lasVars == <<file, loadResult, header, points, displayed, originalGeometry,
             currentLodLevel, distance, lodApplied>>
elevVars == <<elevIn, elevOut>>
cntVars == <<cntPoints, cntLevel, cntSampled>>
meshVars == <<gridIn, meshOut>>
rasterVars == <<raster, rasterOut>>
tierVars == <<tierCanonical, tierShown, tierLevel, tierDistance, tierProduced, tierRevisited,
              tierTicked>>
appVars == <<appIsLoading, appGeotiffData, appHeightScale, appWireframe,
             appUploads, appStatus, appLoads, appMeshes>>
cogVars == <<cogCache, cogPending, cogReturned, cogLoads, cogNextKey, cogEvicted>>
dtmVars == <<terrainTiles, loadingTiles, lastCameraPosition, tileLoads, sceneThrows,
             lastRequired, lastCall, terrainCalls>>
otherVars == <<meshVars, rasterVars, tierVars, appVars, cogVars, dtmVars>>
vars == <<lasVars, elevVars, cntVars, otherVars>>

-----------------------------------------------------------------------------
(* JavaScript values *)

Null == [null |-> TRUE]
Undefined == [undefined |-> TRUE]

Abs(n) == IF n < 0 THEN -n ELSE n
Sign(n) == IF n > 0 THEN 1 ELSE IF n < 0 THEN -1 ELSE 0

RECURSIVE Gcd(_, _)
Gcd(a, b) == IF b = 0 THEN a ELSE Gcd(b, a % b)

\* The number n/d in lowest terms with d > 0; d = 0 gives NaN (n = 0),
\* +Infinity (n > 0) or -Infinity (n < 0).
Num(n, d) ==
    IF d = 0 THEN [n |-> Sign(n), d |-> 0]
    ELSE LET g == Gcd(Abs(n), Abs(d))
         IN  [n |-> Sign(d) * (n \div g), d |-> Abs(d) \div g]

Number(i) == [n |-> i, d |-> 1]
NaN == [n |-> 0, d |-> 0]
Infinity == [n |-> 1, d |-> 0]
Half == [n |-> 1, d |-> 2]

IsNaN(a) == a.d = 0 /\ a.n = 0
IsFinite(a) == a.d # 0

Neg(a) == [n |-> -a.n, d |-> a.d]

Add(a, b) ==
    IF IsNaN(a) \/ IsNaN(b) THEN NaN
    ELSE IF IsFinite(a) /\ IsFinite(b) THEN Num(a.n * b.d + b.n * a.d, a.d * b.d)
    ELSE IF IsFinite(a) THEN b
    ELSE IF IsFinite(b) THEN a
    ELSE IF a.n = b.n THEN a ELSE NaN

Sub(a, b) == Add(a, Neg(b))

Mul(a, b) == IF IsNaN(a) \/ IsNaN(b) THEN NaN ELSE Num(a.n * b.n, a.d * b.d)

\* a / b: division by zero gives NaN (0/0) or an infinity, as in IEEE 754.
Div(a, b) == IF IsNaN(a) \/ IsNaN(b) THEN NaN ELSE Mul(a, Num(b.d, b.n))

\* a < b; FALSE when either is NaN.
Lt(a, b) ==
    /\ ~IsNaN(a)
    /\ ~IsNaN(b)
    /\ IF IsFinite(a) /\ IsFinite(b) THEN a.n * b.d < b.n * a.d
       ELSE IF IsFinite(a) THEN b.n > 0
       ELSE IF IsFinite(b) THEN a.n < 0
       ELSE a.n < b.n

Leq(a, b) == ~IsNaN(a) /\ ~IsNaN(b) /\ ~Lt(b, a)

MathMin(a, b) == IF IsNaN(a) \/ IsNaN(b) THEN NaN ELSE IF Lt(b, a) THEN b ELSE a
MathMax(a, b) == IF IsNaN(a) \/ IsNaN(b) THEN NaN ELSE IF Lt(a, b) THEN b ELSE a

MaxNat(a, b) == IF a < b THEN b ELSE a
MinNat(a, b) == IF a < b THEN a ELSE b

-----------------------------------------------------------------------------
(* LAS files.  A file is its byte length, the header fields found at the   *)
(* fixed header offsets, and the contents of the point-data region, which  *)
(* are drawn from a family of byte patterns indexed by seed.               *)

MaxRecords == 3      \* declared point counts and complete records: 0..MaxRecords
MaxExtHigh == 1      \* extended-count-high words 0..MaxExtHigh

Seeds == {0, 1}      \* content patterns

\* scale / offset / bounds as read by getFloat64 at 131..219
Georefs ==
    { [xScale |-> Number(1), yScale |-> Number(1), zScale |-> Number(1),
       xOffset |-> Number(0), yOffset |-> Number(0), zOffset |-> Number(0),
       maxX |-> Number(10), minX |-> Number(-2), maxY |-> Number(7), minY |-> Number(0),
       maxZ |-> Number(10), minZ |-> Number(0)],
      [xScale |-> Half, yScale |-> Number(1), zScale |-> Half,
       xOffset |-> Number(1), yOffset |-> Number(-3), zOffset |-> Number(1),
       maxX |-> Number(6), minX |-> Number(0), maxY |-> Number(7), minY |-> Number(-5),
       maxZ |-> Number(6), minZ |-> Number(-1)],
      [xScale |-> Number(1), yScale |-> Number(1), zScale |-> Number(1),
       xOffset |-> Number(0), yOffset |-> Number(0), zOffset |-> Number(0),
       maxX |-> Number(10), minX |-> Number(-2), maxY |-> Number(10), minY |-> Number(-2),
       maxZ |-> Number(4), minZ |-> Number(4)] }

\* version, extended count words and the header size that goes with the version
Versions ==
    { [versionMinor |-> 2, extendedLow |-> 0, extendedHigh |-> 0, pointDataOffset |-> 227],
      [versionMinor |-> 4, extendedLow |-> 2, extendedHigh |-> 0, pointDataOffset |-> 375] }

PointFormats == {0, 2, 3, 6, 8, 135, 200}
RecordLengths == {4, 12, 26, 34, 36}
ExtraBytes == {0, 1, 8}

\* a well-formed file: header fields, then k complete records and extra bytes
LasFile(g, v, fmt, len, n, k, extra, s) ==
    g @@ v @@
    [byteLength |-> v.pointDataOffset + k * len + extra,
     magic |-> "LASF", versionMajor |-> 1,
     pointDataFormat |-> fmt, pointDataRecordLength |-> len,
     numberOfPointRecords |-> n, seed |-> s]

\* well-formed headers over every combination of layout and truncation
PointFiles ==
    { LasFile(g, v, fmt, len, n, k, extra, s) :
        g \in Georefs, v \in Versions, fmt \in PointFormats, len \in RecordLengths,
        n \in 0..MaxRecords, k \in 0..MaxRecords, extra \in ExtraBytes, s \in Seeds }

\* a file whose magic and version bytes are m, maj, min
HeaderFile(g, len, m, maj, min, n, lo, hi) ==
    g @@
    [byteLength |-> len, magic |-> m, versionMajor |-> maj, versionMinor |-> min,
     pointDataFormat |-> 3, pointDataRecordLength |-> 34,
     numberOfPointRecords |-> n, extendedLow |-> lo, extendedHigh |-> hi,
     pointDataOffset |-> 375, seed |-> 0]

\* every combination of magic, version and count words, over short and long buffers
HeaderFiles ==
    { HeaderFile(g, len, m, maj, min, n, lo, hi) :
        g \in {x \in Georefs : x.minZ # x.maxZ /\ x.xScale = Number(1)},
        len \in {2, 20, 100, 240, 375 + 34}, m \in {"LASF", "LASX", "lasf"},
        maj \in 0..2, min \in 0..5, n \in {0, 1, 3}, lo \in {0, 2},
        hi \in 0..MaxExtHigh }

ParseFiles == PointFiles \cup HeaderFiles

\* DataView accessors throw RangeError when the read leaves the buffer.
InRange(f, offset, width) == offset + width <= f.byteLength

\* dataView.getInt32(offset, true) inside the point-data region
Int32At(f, offset) == ((offset + 3 * f.seed) % 5) * 3 - 2

\* dataView.getUint16(offset, true) inside the point-data region
Uint16At(f, offset) ==
    LET r == (offset + f.seed) % 3
    IN  IF r = 0 THEN 0 ELSE IF r = 1 THEN 13107 ELSE 65535

\* A point count: the integer lo + hi * 2^32, kept as its two 32-bit words.
Count64(lo, hi) == [lo |-> lo, hi |-> hi]
IsPositive64(c) == c.lo > 0 \/ c.hi > 0
\* i < c for a loop index i below 2^32
IndexBelow(i, c) == c.hi > 0 \/ i < c.lo

\* the negation of: versionMajor !== 1 || versionMinor > 4
versionSupported_NoMinorCheck(versionMajor, versionMinor) == versionMajor = 1

versionSupported(versionMajor, versionMinor) ==
    ~(versionMajor # 1 \/ versionMinor > 4)

\* the extended count is read whatever the version
totalPointsOf_AnyVersion(f) ==
    IF IsPositive64(Count64(f.extendedLow, f.extendedHigh))
    THEN Count64(f.extendedLow, f.extendedHigh)
    ELSE Count64(f.numberOfPointRecords, 0)

\* let totalPoints = numberOfPointRecords, superseded by the extended count
totalPointsOf(f) ==
    LET extendedNumberOfPointRecords == Count64(f.extendedLow, f.extendedHigh)
    IN  IF f.versionMajor = 1 /\ f.versionMinor >= 4
           /\ IsPositive64(extendedNumberOfPointRecords)
        THEN extendedNumberOfPointRecords
        ELSE Count64(f.numberOfPointRecords, 0)

\* Null when a read throws RangeError or a check throws: the catch returns null
parseLASHeader(f) ==
    IF ~InRange(f, 3, 1) THEN Null
    ELSE IF f.magic # "LASF" THEN Null
    ELSE IF ~InRange(f, 25, 1) THEN Null
    ELSE IF ~versionSupported(f.versionMajor, f.versionMinor) THEN Null
    ELSE IF ~InRange(f, 107, 4) THEN Null
    ELSE IF f.versionMinor >= 4 /\ ~InRange(f, 251, 4) THEN Null
    ELSE IF ~InRange(f, 219, 8) THEN Null
    ELSE [versionMajor |-> f.versionMajor, versionMinor |-> f.versionMinor,
          pointDataFormat |-> f.pointDataFormat,
          pointDataRecordLength |-> f.pointDataRecordLength,
          numberOfPointRecords |-> f.numberOfPointRecords,
          totalPoints |-> totalPointsOf(f),
          xScale |-> f.xScale, yScale |-> f.yScale, zScale |-> f.zScale,
          xOffset |-> f.xOffset, yOffset |-> f.yOffset, zOffset |-> f.zOffset,
          maxX |-> f.maxX, minX |-> f.minX, maxY |-> f.maxY, minY |-> f.minY,
          maxZ |-> f.maxZ, minZ |-> f.minZ,
          pointDataOffset |-> f.pointDataOffset]

-----------------------------------------------------------------------------
(* LAS point stream parser *)

ColorFormats == {2, 3, 5, 6, 7, 8, 10, 135}

\* the switch on pointDataFormat
colorOffset(pointDataFormat) ==
    CASE pointDataFormat = 2 -> 20
      [] pointDataFormat = 3 -> 28
      [] pointDataFormat = 5 -> 28
      [] pointDataFormat = 6 -> 28
      [] pointDataFormat = 7 -> 28
      [] pointDataFormat = 8 -> 30
      [] pointDataFormat = 10 -> 28
      [] pointDataFormat = 135 -> 20
      [] OTHER -> 20

\* the guard in front of the three getUint16 reads
colorReadable(f, recordOffset, pointDataFormat) ==
    recordOffset + colorOffset(pointDataFormat) + 6 < f.byteLength

\* one iteration's point: x, y, z and, when read, the normalized colour
readPoint(f, recordOffset, pointDataFormat) ==
    LET hasColor == /\ pointDataFormat \in ColorFormats
                    /\ colorReadable(f, recordOffset, pointDataFormat)
        at == recordOffset + colorOffset(pointDataFormat)
    IN [x |-> Int32At(f, recordOffset),
        y |-> Int32At(f, recordOffset + 4),
        z |-> Int32At(f, recordOffset + 8),
        red |-> IF hasColor THEN Num(Uint16At(f, at), 65535) ELSE Undefined,
        green |-> IF hasColor THEN Num(Uint16At(f, at + 2), 65535) ELSE Undefined,
        blue |-> IF hasColor THEN Num(Uint16At(f, at + 4), 65535) ELSE Undefined]

\* the for loop from index i on, pts being the points pushed so far
RECURSIVE parseLoop(_, _, _, _)
parseLoop(f, h, i, pts) ==
    LET recordOffset == h.pointDataOffset + i * h.pointDataRecordLength
    IN IF ~IndexBelow(i, h.totalPoints) THEN pts
       ELSE IF recordOffset + h.pointDataRecordLength > f.byteLength THEN pts
       ELSE IF ~InRange(f, recordOffset + 8, 4) THEN pts
       ELSE parseLoop(f, h, i + 1,
                      Append(pts, readPoint(f, recordOffset, h.pointDataFormat)))

parseLASPoints(f, h) == parseLoop(f, h, 0, <<>>)

-----------------------------------------------------------------------------
(* Coordinate normalizer: the per-point loop of loadLASFile *)

\* half the extent instead of the midpoint
centerOf_HalfExtent(max, min) == Div(Sub(max, min), Number(2))

\* const centerX = (header.maxX + header.minX) / 2
centerOf(max, min) == Div(Add(max, min), Number(2))

normalized(raw, scale, offset, center) ==
    Sub(Add(Mul(Number(raw), scale), offset), center)

hasDecodedColor(point) ==
    point.red # Undefined /\ point.green # Undefined /\ point.blue # Undefined

\* (normalizedZ - (minZ - centerZ)) / ((maxZ - centerZ) - (minZ - centerZ))
normalizedHeight(normalizedZ, h) ==
    LET centerZ == centerOf(h.maxZ, h.minZ)
    IN  Div(Sub(normalizedZ, Sub(h.minZ, centerZ)),
            Sub(Sub(h.maxZ, centerZ), Sub(h.minZ, centerZ)))

pointPosition(point, h) ==
    << normalized(point.x, h.xScale, h.xOffset, centerOf(h.maxX, h.minX)),
       normalized(point.y, h.yScale, h.yOffset, centerOf(h.maxY, h.minY)),
       normalized(point.z, h.zScale, h.zOffset, centerOf(h.maxZ, h.minZ)) >>

pointColor(point, normalizedZ, h) ==
    IF hasDecodedColor(point) THEN << point.red, point.green, point.blue >>
    ELSE LET nh == normalizedHeight(normalizedZ, h)
         IN << MathMax(Number(0), MathMin(Number(1), nh)),
               MathMax(Number(0), MathMin(Number(1), Sub(Number(1), nh))),
               Half >>

\* one iteration of the loop: the three positions and three colours of a point
vertexOf(point, h) ==
    LET position == pointPosition(point, h)
    IN  [position |-> position, color |-> pointColor(point, position[3], h)]

\* the flat arrays after the loop has run over points i..: entries 3*i, 3*i+1,
\* 3*i+2 (0-based) are the components of point i
RECURSIVE fillArrays(_, _, _)
fillArrays(pts, h, i) ==
    IF i > Len(pts) THEN [positions |-> <<>>, colors |-> <<>>]
    ELSE LET v == vertexOf(pts[i], h)
             rest == fillArrays(pts, h, i + 1)
         IN  [positions |-> v.position \o rest.positions,
              colors |-> v.color \o rest.colors]

buildGeometry(pts, h) == fillArrays(pts, h, 1)

-----------------------------------------------------------------------------
(* LOD manager *)

lodLevels ==
    << [maxDistance |-> Number(50),   pointLimit |-> 1000000, step |-> 1],
       [maxDistance |-> Number(100),  pointLimit |-> 500000,  step |-> 2],
       [maxDistance |-> Number(200),  pointLimit |-> 250000,  step |-> 4],
       [maxDistance |-> Number(500),  pointLimit |-> 100000,  step |-> 8],
       [maxDistance |-> Number(1000), pointLimit |-> 50000,   step |-> 16],
       [maxDistance |-> Infinity,     pointLimit |-> 25000,   step |-> 32] >>

\* the for loop of getLodLevelForDistance from index i on
RECURSIVE lodScan(_, _)
lodScan(d, i) ==
    IF i >= Len(lodLevels) THEN Len(lodLevels) - 1
    ELSE IF Leq(d, lodLevels[i + 1].maxDistance) THEN i
    ELSE lodScan(d, i + 1)

\* the loop with distance < maxDistance: a distance on a threshold goes to the farther tier
getLodLevelForDistance_Strict(d) ==
    LET hits == { i \in 0..(Len(lodLevels) - 1) : Lt(d, lodLevels[i + 1].maxDistance) }
    IN  IF hits = {} THEN Len(lodLevels) - 1
        ELSE CHOOSE i \in hits : \A j \in hits : i <= j

getLodLevelForDistance(d) == lodScan(d, 0)

\* rounding the stride up instead of down
lodStep_Ceil(pointCount, pointLimit) ==
    MaxNat(1, (pointCount + pointLimit - 1) \div pointLimit)

\* const step = Math.max(1, Math.floor(pointCount / lodConfig.pointLimit))
lodStep(pointCount, pointLimit) == MaxNat(1, pointCount \div pointLimit)

\* const sampledCount = Math.floor(pointCount / step)
lodSampledCount(pointCount, pointLimit) == pointCount \div lodStep(pointCount, pointLimit)

\* the triple after the one the loop reads: sourceIndex = (i + 1) * step
sourceSlot_NextTriple(step, j) ==
    (((j - 1) \div 3) + 1) * step * 3 + ((j - 1) % 3) + 1

\* the slot (from 1) of the source array copied into slot j of the new array:
\* new[i * 3 + c] = source[sourceIndex * 3 + c] with sourceIndex = i * step
sourceSlot(step, j) ==
    ((j - 1) \div 3) * step * 3 + ((j - 1) % 3) + 1

\* every step-th triple of a flat array, sampledCount of them
sampleArray(array, step, sampledCount) ==
    [j \in 1..(3 * sampledCount) |-> array[sourceSlot(step, j)]]

\* the geometry applyLOD puts on the point cloud
applyLOD(original, lodLevel) ==
    LET lodConfig == lodLevels[lodLevel + 1]
        pointCount == Len(original.positions) \div 3
        step == lodStep(pointCount, lodConfig.pointLimit)
        sampledCount == lodSampledCount(pointCount, lodConfig.pointLimit)
    IN [positions |-> sampleArray(original.positions, step, sampledCount),
        colors |-> IF Len(original.colors) > 0
                   THEN sampleArray(original.colors, step, sampledCount)
                   ELSE <<>>]

-----------------------------------------------------------------------------
(* The viewer: loads, frame ticks, camera moves *)

\* camera-to-target distances the orbit controls can produce
Distances == { Number(d) : d \in {5, 50, 100, 200, 201, 1000, 1001} }

\* createPointCloud puts the camera at center + (d, d, d) with
\* d = Math.max(radius * 3, 100): its distance to the target is d * sqrt(3).
CameraDistances == { d \in Distances : d.n * d.n >= 3 * 100 * 100 * d.d * d.d }

\* files offered to the running viewer: one or two complete records with and
\* without colour, an empty point region, and rejected headers
ViewerFiles ==
    { LasFile(g, v, fmt, 26, 2, k, 0, 0) :
        g \in {x \in Georefs : x.minZ # x.maxZ /\ x.xScale = Number(1)},
        v \in {x \in Versions : x.versionMinor = 2},
        fmt \in {0, 2}, k \in 1..2 }
    \cup
    { LasFile(g, v, 2, 26, 2, 0, 0, 0) :
        g \in {x \in Georefs : x.minZ # x.maxZ /\ x.xScale = Number(1)},
        v \in {x \in Versions : x.versionMinor = 2} }
    \cup
    { HeaderFile(g, 375 + 34, b[1], b[2], b[3], 1, 0, 0) :
        g \in {x \in Georefs : x.minZ # x.maxZ /\ x.xScale = Number(1)},
        b \in { <<"LASX", 1, 2>>, <<"LASF", 2, 2>>, <<"LASF", 1, 5>> } }

\* createPointCloud(geometry), the camera landing at distance d
createPointCloud(geometry, d) ==
    /\ displayed' = geometry
    /\ originalGeometry' = geometry
    /\ distance' = d
    /\ UNCHANGED <<currentLodLevel, lodApplied>>

\* reader.onload of loadLASFile on buffer f
LoadLASFile(f) ==
    LET h == parseLASHeader(f)
        pts == IF h = Null THEN <<>> ELSE parseLASPoints(f, h)
    IN /\ file' = f
       /\ header' = h
       /\ points' = pts
       /\ IF h = Null
          THEN /\ loadResult' = "headerError"
               /\ UNCHANGED <<displayed, originalGeometry, currentLodLevel, distance, lodApplied>>
          ELSE IF Len(pts) = 0
          THEN /\ loadResult' = "noPointsError"
               /\ UNCHANGED <<displayed, originalGeometry, currentLodLevel, distance, lodApplied>>
          ELSE /\ loadResult' = "resolved"
               /\ LET geometry == buildGeometry(pts, h)
                  IN  \E d \in CameraDistances : createPointCloud(geometry, d)
       /\ UNCHANGED <<elevVars, cntVars, otherVars>>

\* the test always passes: every frame resamples
lodLevelChanged_Always(newLodLevel, lodLevel) == TRUE

\* newLodLevel !== this.currentLodLevel
lodLevelChanged(newLodLevel, lodLevel) == newLodLevel # lodLevel

\* LODManager.updateLOD, called once per animation frame
updateLOD ==
    /\ IF displayed = Null \/ originalGeometry = Null
       THEN /\ lodApplied' = FALSE
            /\ UNCHANGED <<currentLodLevel, displayed>>
       ELSE LET newLodLevel == getLodLevelForDistance(distance)
            IN IF lodLevelChanged(newLodLevel, currentLodLevel)
               THEN /\ currentLodLevel' = newLodLevel
                    /\ displayed' = applyLOD(originalGeometry, newLodLevel)
                    /\ lodApplied' = TRUE
               ELSE /\ lodApplied' = FALSE
                    /\ UNCHANGED <<currentLodLevel, displayed>>
    /\ UNCHANGED <<file, loadResult, header, points, originalGeometry, distance>>
    /\ UNCHANGED <<elevVars, cntVars, otherVars>>

\* the orbit controls move the camera
MoveCamera(d) ==
    /\ distance' = d
    /\ UNCHANGED <<file, loadResult, header, points, displayed, originalGeometry,
                   currentLodLevel, lodApplied>>
    /\ UNCHANGED <<elevVars, cntVars, otherVars>>

LasInit ==
    /\ file = Null
    /\ loadResult = "none"
    /\ header = Null
    /\ points = <<>>
    /\ displayed = Null
    /\ originalGeometry = Null
    /\ currentLodLevel = 0
    /\ distance = Number(5)
    /\ lodApplied = FALSE

ElevIdle == elevIn = <<>> /\ elevOut = Null
CntIdle == cntPoints = 0 /\ cntLevel = 0 /\ cntSampled = Null
MeshIdle == gridIn = Null /\ meshOut = Null
RasterIdle == raster = Null /\ rasterOut = Null
TierIdle ==
    /\ tierCanonical = Null
    /\ tierShown = Null
    /\ tierLevel = 0
    /\ tierDistance = Number(5)
    /\ tierProduced = << >>
    /\ tierRevisited = FALSE
    /\ tierTicked = FALSE
AppIdle ==
    /\ appIsLoading = FALSE
    /\ appGeotiffData = 0
    /\ appHeightScale = Number(1)
    /\ appWireframe = FALSE
    /\ appUploads = 0
    /\ appStatus = << >>
    /\ appLoads = {}
    /\ appMeshes = << >>
CogIdle ==
    /\ cogCache = << >>
    /\ cogPending = {}
    /\ cogReturned = Null
    /\ cogLoads = 0
    /\ cogNextKey = 1
    /\ cogEvicted = 0
DtmIdle ==
    /\ terrainTiles = {}
    /\ loadingTiles = {}
    /\ lastCameraPosition = [x |-> 0, y |-> 0, z |-> 0]
    /\ tileLoads = << >>
    /\ sceneThrows = FALSE
    /\ lastRequired = {}
    /\ lastCall = "none"
    /\ terrainCalls = 0
OtherIdle == MeshIdle /\ RasterIdle /\ TierIdle /\ AppIdle /\ CogIdle /\ DtmIdle

Init == LasInit /\ ElevIdle /\ CntIdle /\ OtherIdle

Next ==
    \/ \E f \in ViewerFiles : LoadLASFile(f)
    \/ updateLOD
    \/ \E d \in Distances : MoveCamera(d)

Spec == Init /\ [][Next]_vars

\* one load of each file of the parse family into a fresh viewer
ParseInit ==
    /\ file \in ParseFiles
    /\ loadResult = "none"
    /\ header = Null
    /\ points = <<>>
    /\ displayed = Null
    /\ originalGeometry = Null
    /\ currentLodLevel = 0
    /\ distance = Number(5)
    /\ lodApplied = FALSE
    /\ ElevIdle
    /\ CntIdle
    /\ OtherIdle

ParseNext == loadResult = "none" /\ LoadLASFile(file)

ParseSpec == ParseInit /\ [][ParseNext]_vars

-----------------------------------------------------------------------------
(* Elevation normalizer (GeoTIFFLoader.normalizeElevationData).  A sample  *)
(* is a number, null or undefined.                                         *)

MaxLen == 3          \* grids of 0..MaxLen samples

\* the list without the exact-0 sentinel
noDataValues_NoZero == << Number(-9999), Number(-32768) >>

\* const noDataValues = [-9999, -32768, 0]
noDataValues == << Number(-9999), Number(-32768), Number(0) >>

\* noDataValues.includes(value)
includes(array, value) == \E i \in 1..Len(array) : array[i] = value

\* isNaN(value): undefined converts to NaN, null to 0
isNaN(value) == value = Undefined \/ (value # Null /\ IsNaN(value))

\* the predicate of data.filter
isValidSample(value) ==
    /\ value # Null
    /\ value # Undefined
    /\ ~includes(noDataValues, value)
    /\ ~isNaN(value)

\* the min/max loop over validData[1..]
RECURSIVE scanMin(_, _, _)
scanMin(validData, i, min) ==
    IF i > Len(validData) THEN min
    ELSE scanMin(validData, i + 1, IF Lt(validData[i], min) THEN validData[i] ELSE min)

RECURSIVE scanMax(_, _, _)
scanMax(validData, i, max) ==
    IF i > Len(validData) THEN max
    ELSE scanMax(validData, i + 1, IF Lt(max, validData[i]) THEN validData[i] ELSE max)

\* one of the two closures passed as transformFn
transform(fn, value) ==
    IF fn.constant THEN Half ELSE Div(Sub(value, fn.min), fn.range)

\* normalizeDataSync: the batches [i, min(i + 5000, length)) partition the
\* indices, and every index gets the same treatment
normalizeDataSync(data, noData, fn) ==
    [j \in 1..Len(data) |->
        IF includes(noData, data[j]) \/ data[j] = Null \/ data[j] = Undefined
           \/ isNaN(data[j])
        THEN Number(0)
        ELSE transform(fn, data[j])]

normalizeElevationData(data) ==
    IF Len(data) = 0 THEN <<>>
    ELSE LET validData == SelectSeq(data, isValidSample)
         IN IF Len(validData) = 0 THEN [j \in 1..Len(data) |-> Number(0)]
            ELSE LET min == scanMin(validData, 2, validData[1])
                     max == scanMax(validData, 2, validData[1])
                     range == Sub(max, min)
                 IN IF range = Number(0)
                    THEN normalizeDataSync(data, noDataValues,
                                           [constant |-> TRUE, min |-> min, range |-> range])
                    ELSE normalizeDataSync(data, noDataValues,
                                           [constant |-> FALSE, min |-> min, range |-> range])

Samples ==
    { Number(-9999), Number(-32768), Number(0), NaN, Null, Undefined,
      Number(-3), Number(5), Number(7), Infinity }

RECURSIVE SeqsUpTo(_, _)
SeqsUpTo(S, n) ==
    IF n = 0 THEN { <<>> }
    ELSE LET shorter == SeqsUpTo(S, n - 1)
         IN  shorter \cup { Append(q, x) : q \in shorter, x \in S }

Normalize ==
    /\ elevOut = Null
    /\ elevOut' = [array |-> normalizeElevationData(elevIn)]
    /\ UNCHANGED <<elevIn, lasVars, cntVars, otherVars>>

ElevInit ==
    /\ elevIn \in SeqsUpTo(Samples, MaxLen)
    /\ elevOut = Null
    /\ LasInit
    /\ CntIdle
    /\ OtherIdle

ElevNext == Normalize

ElevSpec == ElevInit /\ [][ElevNext]_vars

-----------------------------------------------------------------------------
(* The resampled point count of applyLOD, over point counts the arrays of  *)
(* the viewer model cannot hold                                            *)

CountGrid == 12500   \* point counts sampled around the multiples of CountGrid
MaxMult == 200       \* multiples 0..MaxMult
MaxDelta == 2        \* and up to MaxDelta points either side of each

PointCounts ==
    { n \in { m * CountGrid + e : m \in 0..MaxMult, e \in (0 - MaxDelta)..MaxDelta } : n >= 1 }

\* displayed points whose copies are followed: the first two, the middle one and the last
ProbedPoints(sampledCount) ==
    { 0, 1, sampledCount \div 2, sampledCount - 1 } \cap 0..(sampledCount - 1)

\* the source slots the sampling loop reads for displayed point i
slotsRead(step, i) ==
    << sourceSlot(step, 3 * i + 1), sourceSlot(step, 3 * i + 2), sourceSlot(step, 3 * i + 3) >>

Resample ==
    /\ cntSampled = Null
    /\ LET pointLimit == lodLevels[cntLevel + 1].pointLimit
           step == lodStep(cntPoints, pointLimit)
           sampledCount == lodSampledCount(cntPoints, pointLimit)
       IN  cntSampled' = [count |-> sampledCount,
                          positionsRead |-> [i \in ProbedPoints(sampledCount) |-> slotsRead(step, i)],
                          colorsRead |-> [i \in ProbedPoints(sampledCount) |-> slotsRead(step, i)]]
    /\ UNCHANGED <<cntPoints, cntLevel, lasVars, elevVars, otherVars>>

CntInit ==
    /\ cntPoints \in PointCounts
    /\ cntLevel \in 0..(Len(lodLevels) - 1)
    /\ cntSampled = Null
    /\ LasInit
    /\ ElevIdle
    /\ OtherIdle

CntNext == Resample

CntSpec == CntInit /\ [][CntNext]_vars

-----------------------------------------------------------------------------
(* Terrain mesh builders.  BabylonViewer.js holds three variants of the    *)
(* component; the first (ArcRotateCamera, lines 1-383) builds from the     *)
(* grid GeoTIFFLoader returns, the third (UniversalCamera, lines 676-1181) *)
(* reads the raster itself.  test.js builds on a THREE.PlaneGeometry.      *)
(* The raster collaborator hands over each band as a plain array.          *)

MaxDim == 4          \* grids of 2..MaxDim columns and 2..MaxDim rows

\* settings.heightScale: the initial 1.0 and one slider position
HeightScales == { Number(1), Number(2) }

GridPatterns == { "flat", "ramp", "hole", "alpine", "void" }

\* sample i (from 0) of a band
sampleAt(pattern, i) ==
    CASE pattern = "flat"   -> Number(5)
      [] pattern = "ramp"   -> Number(i + 1)
      [] pattern = "hole"   -> IF i = 1 THEN NaN ELSE Number(10 * i + 10)
      [] pattern = "alpine" -> Number(600 * i)
      [] pattern = "void"   -> NaN
      [] pattern = "white"  -> Number(255)
      [] pattern = "black"  -> Number(0)

Band(pattern, length) == [j \in 1..length |-> sampleAt(pattern, j - 1)]

\* band lengths a decoder can hand over for a w x h image: the right one,
\* one sample short or long, and none at all
BandLengths(w, h) == { 0, w * h - 1, w * h, w * h + 1 }

Grid(w, h, pattern, length, bandCount, scale) ==
    [ width |-> w, height |-> h,
      bands |-> IF bandCount = 1 THEN << Band(pattern, length) >>
                ELSE << Band(pattern, length), Band("white", length), Band("black", length) >>,
      heightScale |-> scale ]

Grids ==
    UNION { { Grid(w, h, p, n, b, s) : n \in BandLengths(w, h) } :
              w \in 2..MaxDim, h \in 2..MaxDim, p \in GridPatterns,
              b \in {1, 3}, s \in HeightScales }

\* array[index]: undefined beyond the end
elementAt(array, index) ==
    IF index >= 0 /\ index < Len(array) THEN array[index + 1] ELSE Undefined

\* the conversion arithmetic and comparison apply to an operand
ToNumber(value) ==
    IF value = Undefined THEN NaN ELSE IF value = Null THEN Number(0) ELSE value

\* value || 0
orZero(value) ==
    IF value = Undefined \/ value = Null THEN Number(0)
    ELSE IF IsNaN(value) \/ value = Number(0) THEN Number(0) ELSE value

\* elevation !== null && elevation !== undefined && !isNaN(elevation) && isFinite(elevation)
isValidElevation(elevation) ==
    /\ elevation # Null
    /\ elevation # Undefined
    /\ ~isNaN(elevation)
    /\ IsFinite(elevation)

getVerticalExaggeration(elevationRange) ==
    IF Lt(elevationRange, Number(10)) THEN Number(10)
    ELSE IF Lt(elevationRange, Number(100)) THEN Number(5)
    ELSE IF Lt(elevationRange, Number(500)) THEN Number(2)
    ELSE Number(1)

\* the corners of cell (x, y) with every row one vertex too long
cellCorners_WideRow(width, y, x) ==
    LET topLeft == y * (width + 1) + x
        bottomLeft == (y + 1) * (width + 1) + x
    IN  [ topLeft |-> topLeft, topRight |-> topLeft + 1,
          bottomLeft |-> bottomLeft, bottomRight |-> bottomLeft + 1 ]

\* the four vertex indices of cell (x, y)
cellCorners(width, y, x) ==
    LET topLeft == y * width + x
        bottomLeft == (y + 1) * width + x
    IN  [ topLeft |-> topLeft, topRight |-> topLeft + 1,
          bottomLeft |-> bottomLeft, bottomRight |-> bottomLeft + 1 ]

\* indices.push(topLeft, topRight, bottomLeft); indices.push(topRight, bottomRight, bottomLeft)
cellTriangles(c) ==
    << c.topLeft, c.topRight, c.bottomLeft, c.topRight, c.bottomRight, c.bottomLeft >>

\* the range check of the third variant; a cell failing it is skipped
cellOutOfRange(c, totalVertices) ==
    \/ c.topLeft >= totalVertices
    \/ c.topRight >= totalVertices
    \/ c.bottomLeft >= totalVertices
    \/ c.bottomRight >= totalVertices

\* the index loops, from cell k (row-major over the (width-1) x (height-1) cells)
RECURSIVE indexLoop_Arc(_, _, _)
indexLoop_Arc(width, height, k) ==
    IF k >= (width - 1) * (height - 1) THEN << >>
    ELSE cellTriangles(cellCorners(width, k \div (width - 1), k % (width - 1)))
         \o indexLoop_Arc(width, height, k + 1)

RECURSIVE indexLoop_Universal(_, _, _)
indexLoop_Universal(width, height, k) ==
    IF k >= (width - 1) * (height - 1) THEN << >>
    ELSE LET c == cellCorners(width, k \div (width - 1), k % (width - 1))
         IN  (IF cellOutOfRange(c, width * height) THEN << >> ELSE cellTriangles(c))
             \o indexLoop_Universal(width, height, k + 1)

\* ---- first variant: createHeightMapMesh on the loader's grid ----

\* let minElevation = elevationData[0]; ... if (value < minElevation) minElevation = value
RECURSIVE plainMin(_, _, _)
plainMin(elevationData, i, min) ==
    IF i >= Len(elevationData) THEN min
    ELSE plainMin(elevationData, i + 1,
                  IF Lt(ToNumber(elementAt(elevationData, i)), ToNumber(min))
                  THEN elementAt(elevationData, i) ELSE min)

RECURSIVE plainMax(_, _, _)
plainMax(elevationData, i, max) ==
    IF i >= Len(elevationData) THEN max
    ELSE plainMax(elevationData, i + 1,
                  IF Lt(ToNumber(max), ToNumber(elementAt(elevationData, i)))
                  THEN elementAt(elevationData, i) ELSE max)

createHeightMapMesh_Arc(elevationData, width, height, heightScale) ==
    LET minElevation == plainMin(elevationData, 1, elementAt(elevationData, 0))
        maxElevation == plainMax(elevationData, 1, elementAt(elevationData, 0))
        elevationRange == Sub(ToNumber(maxElevation), ToNumber(minElevation))
        verticalExaggeration == getVerticalExaggeration(elevationRange)
        worldY(index) ==
            LET elevation == orZero(elementAt(elevationData, index))
                validElevation == IF isValidElevation(elevation) THEN elevation
                                  ELSE ToNumber(minElevation)
                actualElevation == Add(ToNumber(minElevation), Mul(validElevation, elevationRange))
            IN  Mul(Mul(actualElevation, verticalExaggeration), heightScale)
    IN  [ builder |-> "arc", built |-> TRUE,
          vertexCount |-> width * height,
          heights |-> [j \in 1..(width * height) |-> worldY(j - 1)],
          indices |-> indexLoop_Arc(width, height, 0),
          colors |-> << >>,
          exaggeration |-> verticalExaggeration,
          heightScale |-> heightScale,
          minElevation |-> minElevation, maxElevation |-> maxElevation,
          offsetY |-> Neg(Mul(Mul(ToNumber(minElevation), verticalExaggeration), heightScale)) ]

\* loadGeoTIFFData and createTerrainMesh of the first variant: the loader's
\* grid keeps the image's width and height and the normalised first band
loadGeoTIFFData_Arc(grid) ==
    createHeightMapMesh_Arc(normalizeElevationData(grid.bands[1]),
                            grid.width, grid.height, grid.heightScale)

\* ---- third variant: loadGeoTIFFData reads the raster itself ----

\* truncation or padding with the first sample to width * height
repairLength(elevationArray, width, height) ==
    IF Len(elevationArray) # width * height
    THEN IF Len(elevationArray) > width * height
         THEN SubSeq(elevationArray, 1, width * height)
         ELSE elevationArray
              \o [j \in 1..(width * height - Len(elevationArray)) |-> elementAt(elevationArray, 0)]
    ELSE elevationArray

RECURSIVE validMin(_, _, _)
validMin(elevationArray, i, min) ==
    IF i >= Len(elevationArray) THEN min
    ELSE validMin(elevationArray, i + 1,
                  IF isValidElevation(elementAt(elevationArray, i)) /\ Lt(elementAt(elevationArray, i), min)
                  THEN elementAt(elevationArray, i) ELSE min)

RECURSIVE validMax(_, _, _)
validMax(elevationArray, i, max) ==
    IF i >= Len(elevationArray) THEN max
    ELSE validMax(elevationArray, i + 1,
                  IF isValidElevation(elementAt(elevationArray, i)) /\ Lt(max, elementAt(elevationArray, i))
                  THEN elementAt(elevationArray, i) ELSE max)

\* the four-stop ramp of the third variant, as RGBA
rampColor_Universal(normalizedElevation) ==
    IF Lt(normalizedElevation, Num(3, 10)) THEN << Num(2, 10), Num(4, 10), Num(8, 10), Number(1) >>
    ELSE IF Lt(normalizedElevation, Num(6, 10)) THEN << Num(3, 10), Num(7, 10), Num(3, 10), Number(1) >>
    ELSE IF Lt(normalizedElevation, Num(8, 10)) THEN << Num(6, 10), Num(4, 10), Num(2, 10), Number(1) >>
    ELSE << Num(9, 10), Num(9, 10), Num(9, 10), Number(1) >>

\* vertex colours from the colour bands, padded with grey
bandColors(elevationData, colorData) ==
    LET colorLength == MinNat(Len(elevationData), Len(colorData.red))
    IN  [j \in 1..Len(elevationData) |->
            IF j <= colorLength
            THEN << Div(orZero(elementAt(colorData.red, j - 1)), Number(255)),
                    Div(orZero(elementAt(colorData.green, j - 1)), Number(255)),
                    Div(orZero(elementAt(colorData.blue, j - 1)), Number(255)),
                    Number(1) >>
            ELSE << Half, Half, Half, Number(1) >>]

\* vertex colours from the elevation ramp
rampColors_Universal(elevationData, minElevation, maxElevation) ==
    [j \in 1..Len(elevationData) |->
        rampColor_Universal(Div(Sub(elevationData[j], minElevation),
                                Sub(maxElevation, minElevation)))]

createHeightMapMesh_Universal(elevationData, colorData, width, height, minElevation, maxElevation, heightScale) ==
    LET worldY(index) ==
            LET elevation == elementAt(elevationData, index)
                validElevation == IF isValidElevation(elevation) THEN elevation
                                  ELSE minElevation
            IN  Mul(validElevation, heightScale)
    IN  [ builder |-> "universal", built |-> TRUE,
          vertexCount |-> width * height,
          heights |-> [j \in 1..(width * height) |-> worldY(j - 1)],
          indices |-> indexLoop_Universal(width, height, 0),
          colors |-> IF colorData # Null
                     THEN bandColors(elevationData, colorData)
                     ELSE rampColors_Universal(elevationData, minElevation, maxElevation),
          exaggeration |-> Number(1),
          heightScale |-> heightScale,
          minElevation |-> minElevation, maxElevation |-> maxElevation,
          offsetY |-> Neg(Mul(minElevation, heightScale)) ]

\* what a failed load leaves behind: the error is logged and no mesh is added
NoMesh(builder) ==
    [ builder |-> builder, built |-> FALSE, vertexCount |-> 0, heights |-> << >>,
      indices |-> << >>, colors |-> << >>, exaggeration |-> Number(1),
      heightScale |-> Number(1), minElevation |-> Undefined, maxElevation |-> Undefined,
      offsetY |-> Number(0) ]

loadGeoTIFFData_Universal(grid) ==
    LET rasterData == grid.bands
        colorData == IF Len(rasterData) = 1 THEN Null
                     ELSE IF Len(rasterData) >= 3
                     THEN [ red |-> rasterData[1], green |-> rasterData[2], blue |-> rasterData[3] ]
                     ELSE [ red |-> rasterData[1], green |-> rasterData[2], blue |-> rasterData[1] ]
    IN  IF Len(rasterData[1]) = 0
        THEN NoMesh("universal")
        ELSE LET elevationArray == repairLength(rasterData[1], grid.width, grid.height)
                 minElevation == validMin(elevationArray, 0, elevationArray[1])
                 maxElevation == validMax(elevationArray, 0, elevationArray[1])
             IN  createHeightMapMesh_Universal(elevationArray, colorData, grid.width,
                                               grid.height, minElevation, maxElevation,
                                               grid.heightScale)

\* ---- test.js: loadGeoTIFFFile and createTerrainMesh ----

\* the min/max scan starting from null; defaults 0 and 100 without a valid sample
RECURSIVE elevationBounds(_, _, _)
elevationBounds(elevationData, i, b) ==
    IF i >= Len(elevationData) THEN b
    ELSE LET elevation == elementAt(elevationData, i)
         IN elevationBounds(elevationData, i + 1,
              IF ~isValidElevation(elevation) THEN b
              ELSE IF b.min = Null THEN [min |-> elevation, max |-> elevation]
              ELSE [ min |-> IF Lt(elevation, b.min) THEN elevation ELSE b.min,
                     max |-> IF Lt(b.max, elevation) THEN elevation ELSE b.max ])

boundsOrDefault(b) ==
    IF b.min = Null \/ b.max = Null THEN [min |-> Number(0), max |-> Number(100)] ELSE b

\* Math.ceil(Math.sqrt(pixels / 1000000)): the least s >= from with s * s * 1000000 >= pixels
RECURSIVE ceilSqrtMillionths(_, _)
ceilSqrtMillionths(pixels, from) ==
    IF from * from * 1000000 >= pixels THEN from ELSE ceilSqrtMillionths(pixels, from + 1)

\* the step loadGeoTIFFFile passes to createTerrainMesh
terrainStep(width, height) ==
    IF width * height > 1000000 THEN ceilSqrtMillionths(width * height, 1) ELSE 1

getTerrainColor(normalizedElevation) ==
    IF Lt(normalizedElevation, Num(1, 10)) THEN << Num(1, 10), Num(3, 10), Number(1) >>
    ELSE IF Lt(normalizedElevation, Num(3, 10)) THEN << Num(2, 10), Num(8, 10), Num(2, 10) >>
    ELSE IF Lt(normalizedElevation, Num(6, 10)) THEN << Num(7, 10), Number(1), Num(3, 10) >>
    ELSE IF Lt(normalizedElevation, Num(8, 10)) THEN << Num(8, 10), Num(5, 10), Num(2, 10) >>
    ELSE << Number(1), Number(1), Number(1) >>

\* the index of new THREE.PlaneGeometry(w, h, gridX, gridY): two triangles per segment cell
RECURSIVE planeIndices(_, _, _)
planeIndices(gridX, gridY, k) ==
    IF k >= gridX * gridY THEN << >>
    ELSE LET ix == k % gridX
             iy == k \div gridX
             a == ix + (gridX + 1) * iy
             b == ix + (gridX + 1) * (iy + 1)
             c == (ix + 1) + (gridX + 1) * (iy + 1)
             d == (ix + 1) + (gridX + 1) * iy
         IN  << a, b, d, b, c, d >> \o planeIndices(gridX, gridY, k + 1)

createTerrainMesh(elevationData, width, height, step) ==
    LET b == boundsOrDefault(elevationBounds(elevationData, 0, [min |-> Null, max |-> Null]))
        minElevation == b.min
        maxElevation == b.max
        elevationRange == Sub(maxElevation, minElevation)
        newWidth == (width + step - 1) \div step
        newHeight == (height + step - 1) \div step
        validAt(x, y) ==
            LET elevation == elementAt(elevationData, (y * step) * width + (x * step))
            IN  IF isValidElevation(elevation) THEN elevation ELSE minElevation
        worldY(v) ==
            IF Lt(elevationRange, Number(1000)) THEN v
            ELSE Mul(v, getVerticalExaggeration(elevationRange))
        normalizedElevation(v) ==
            IF Lt(Number(0), elevationRange) THEN Div(Sub(v, minElevation), elevationRange)
            ELSE Number(0)
    IN  [ builder |-> "three", built |-> TRUE,
          vertexCount |-> newWidth * newHeight,
          \* geometry.translate(0, -minValue, 0) moves the vertices themselves
          heights |-> [j \in 1..(newWidth * newHeight) |->
                          Sub(worldY(validAt((j - 1) % newWidth, (j - 1) \div newWidth)),
                              minElevation)],
          indices |-> planeIndices(newWidth - 1, newHeight - 1, 0),
          colors |-> [j \in 1..(newWidth * newHeight) |->
                          getTerrainColor(normalizedElevation(
                              validAt((j - 1) % newWidth, (j - 1) \div newWidth)))],
          exaggeration |-> IF Lt(elevationRange, Number(1000)) THEN Number(1)
                           ELSE getVerticalExaggeration(elevationRange),
          heightScale |-> Number(1),
          minElevation |-> minElevation, maxElevation |-> maxElevation,
          offsetY |-> Number(0) ]

\* loadGeoTIFFFile: the first band goes to createTerrainMesh unrepaired
loadGeoTIFFFile(grid) ==
    createTerrainMesh(grid.bands[1], grid.width, grid.height,
                      terrainStep(grid.width, grid.height))

\* ---- one build of each grid by each builder ----

BuildArc ==
    /\ gridIn # Null /\ meshOut = Null
    /\ meshOut' = loadGeoTIFFData_Arc(gridIn)
    /\ UNCHANGED <<gridIn, rasterVars, tierVars, appVars, cogVars, dtmVars, lasVars, elevVars, cntVars>>

BuildUniversal ==
    /\ gridIn # Null /\ meshOut = Null
    /\ meshOut' = loadGeoTIFFData_Universal(gridIn)
    /\ UNCHANGED <<gridIn, rasterVars, tierVars, appVars, cogVars, dtmVars, lasVars, elevVars, cntVars>>

BuildThree ==
    /\ gridIn # Null /\ meshOut = Null
    /\ meshOut' = loadGeoTIFFFile(gridIn)
    /\ UNCHANGED <<gridIn, rasterVars, tierVars, appVars, cogVars, dtmVars, lasVars, elevVars, cntVars>>

MeshInit ==
    /\ gridIn \in Grids
    /\ meshOut = Null
    /\ LasInit
    /\ ElevIdle
    /\ CntIdle
    /\ RasterIdle
    /\ TierIdle
    /\ AppIdle
    /\ CogIdle
    /\ DtmIdle

MeshNext == BuildArc \/ BuildUniversal \/ BuildThree

MeshSpec == MeshInit /\ [][MeshNext]_vars

-----------------------------------------------------------------------------
(* The raster ingest guard: GeoTIFFLoader.loadGeoTIFF and loadLargeGeoTIFF. *)
(* A raster is its byte size, its pixel dimensions and what the decoder     *)
(* does when asked to read it; a band is represented by its length.         *)
(* Math.floor(width * (target / maxDimension)) is computed exactly; for the *)
(* dimensions of RasterDims the float64 result is the same.                 *)

RasterDims == { 200, 1024, 2049, 2600, 3000, 4000, 6000, 20000 }

\* arrayBuffer.byteLength either side of largeFileThreshold
largeFileThreshold == 200 * 1024 * 1024
FileSizes == { 50 * 1024 * 1024, 300 * 1024 * 1024 }

\* e.message of a failed readRasters
ErrorMessages ==
    { "maximum call stack size exceeded",     \* the text the loader looks for
      "Maximum call stack size exceeded",     \* the text V8 and JavaScriptCore give
      "RangeError: Invalid typed array length",
      "tile decode failed" }

\* what image.readRasters does: a band of the requested size, no band, or a throw
ReadOutcomes == { "ok", "empty" } \cup ErrorMessages

\* samples the decoder returns beyond width * height of the request
LengthDeltas == { 0, 1 }

Rasters ==
    [ byteLength : FileSizes, width : RasterDims, height : RasterDims,
      decodes : BOOLEAN, primary : ReadOutcomes, emergency : { "ok", "tile decode failed" },
      lengthDelta : LengthDeltas, spreadOverflows : BOOLEAN ]

\* String.prototype.includes over the messages above
messageIncludes(message, needle) ==
    \/ message = "maximum call stack size exceeded" /\ needle = "maximum call stack size exceeded"
    \/ message = "RangeError: Invalid typed array length" /\ needle = "RangeError"

\* Math.floor(x * (targetResolution / maxDimension))
floorScaled(x, targetResolution, maxDimension) == (x * targetResolution) \div maxDimension

maxResolution == 2048

\* the tier table of loadGeoTIFF
targetResolutionFor(totalPixels) ==
    IF totalPixels > 10000000 THEN 1024
    ELSE IF totalPixels > 5000000 THEN 1536
    ELSE IF totalPixels > 2000000 THEN 2048
    ELSE IF totalPixels > 1000000 THEN 2560
    ELSE maxResolution

\* the tier table of calculateScaleFactor
largeTargetResolutionFor(totalPixels) ==
    IF totalPixels > 20000000 THEN 1024
    ELSE IF totalPixels > 10000000 THEN 1536
    ELSE IF totalPixels > 5000000 THEN 2048
    ELSE maxResolution

\* calculateScaleFactor: the factor as the fraction target / maxDimension
calculateScaleFactor(width, height) ==
    LET maxDimension == MaxNat(width, height)
        targetResolution == largeTargetResolutionFor(width * height)
    IN  IF maxDimension <= targetResolution THEN [num |-> 1, den |-> 1]
        ELSE [num |-> targetResolution, den |-> maxDimension]

\* the promise rejects; reads are the readRasters calls made
Rejected(loader, why, reads) ==
    [ loader |-> loader, status |-> "rejected", why |-> why, keys |-> {}, width |-> 0, height |-> 0,
      length |-> 0, originalWidth |-> 0, originalHeight |-> 0,
      scaleFactor |-> NaN, isLargeFile |-> FALSE, reads |-> reads ]

\* the object literal loadGeoTIFF returns
smallGrid(r, length, reads) ==
    [ loader |-> "loadGeoTIFF", status |-> "resolved", why |-> "",
      keys |-> { "elevationData", "width", "height", "bounds", "geoKeys",
                 "originalData", "isLargeFile" },
      width |-> r.width, height |-> r.height, length |-> length,
      originalWidth |-> 0, originalHeight |-> 0, scaleFactor |-> NaN,
      isLargeFile |-> FALSE, reads |-> reads ]

\* the object literal loadLargeGeoTIFF returns
largeGrid(r, targetWidth, targetHeight, scaleFactor, length, reads) ==
    [ loader |-> "loadLargeGeoTIFF", status |-> "resolved", why |-> "",
      keys |-> { "elevationData", "width", "height", "originalWidth", "originalHeight",
                 "bounds", "geoKeys", "isLargeFile", "scaleFactor" },
      width |-> targetWidth, height |-> targetHeight, length |-> length,
      originalWidth |-> r.width, originalHeight |-> r.height,
      scaleFactor |-> Num(scaleFactor.num, scaleFactor.den),
      isLargeFile |-> TRUE, reads |-> reads ]

loadLargeGeoTIFF(r) ==
    IF ~r.decodes THEN Rejected("loadLargeGeoTIFF", "parse", << >>)
    ELSE LET scaleFactor == calculateScaleFactor(r.width, r.height)
             targetWidth == floorScaled(r.width, scaleFactor.num, scaleFactor.den)
             targetHeight == floorScaled(r.height, scaleFactor.num, scaleFactor.den)
             request == [ width |-> targetWidth, height |-> targetHeight,
                          resampled |-> scaleFactor.num # scaleFactor.den,
                          emergency |-> FALSE ]
         IN  IF r.primary = "ok"
             THEN largeGrid(r, targetWidth, targetHeight, scaleFactor,
                            targetWidth * targetHeight + r.lengthDelta, << request >>)
             ELSE Rejected("loadLargeGeoTIFF", "read", << request >>)

\* identifiers in scope in the catch block of the raster read; width and
\* height are consts of the try block and are not among them
CatchScope ==
    { "e", "image", "tiff", "rasters", "elevationData", "metadata", "geoKeys", "bbox",
      "pixelScale", "tiePoint", "arrayBuffer", "options", "fileSize" }

\* the emergency retry: ReferenceError before the read when width or height is unbound
emergencyRead(r) ==
    IF ~({ "width", "height" } \subseteq CatchScope)
    THEN [ threw |-> TRUE, reads |-> << >>, length |-> 0 ]
    ELSE LET emergencyResolution == 256
             maxDimension == MaxNat(r.width, r.height)
             request == [ width |-> floorScaled(r.width, emergencyResolution, maxDimension),
                          height |-> floorScaled(r.height, emergencyResolution, maxDimension),
                          resampled |-> TRUE, emergency |-> TRUE ]
         IN  [ threw |-> r.emergency # "ok", reads |-> << request >>,
               length |-> request.width * request.height + r.lengthDelta ]

\* console.log(..., Math.min(...normalizedData), Math.max(...normalizedData)):
\* whether the spread exceeds the engine's argument limit and throws RangeError
\* depends on the engine
spreadThrows(r, length) == r.spreadOverflows

loadGeoTIFF(r) ==
    IF r.byteLength > largeFileThreshold THEN loadLargeGeoTIFF(r)
    ELSE IF ~r.decodes THEN Rejected("loadGeoTIFF", "parse", << >>)
    ELSE LET maxDimension == MaxNat(r.width, r.height)
             totalPixels == r.width * r.height
             targetResolution == targetResolutionFor(totalPixels)
             request ==
                 IF maxDimension > targetResolution
                 THEN [ width |-> floorScaled(r.width, targetResolution, maxDimension),
                        height |-> floorScaled(r.height, targetResolution, maxDimension),
                        resampled |-> TRUE, emergency |-> FALSE ]
                 ELSE [ width |-> r.width, height |-> r.height,
                        resampled |-> FALSE, emergency |-> FALSE ]
             length == request.width * request.height + r.lengthDelta
         IN  IF r.primary = "ok"
             THEN IF spreadThrows(r, length) THEN Rejected("loadGeoTIFF", "log", << request >>)
                  ELSE smallGrid(r, length, << request >>)
             ELSE IF r.primary = "empty"
             THEN Rejected("loadGeoTIFF", "read", << request >>)
             ELSE IF \/ messageIncludes(r.primary, "maximum call stack size exceeded")
                     \/ messageIncludes(r.primary, "RangeError")
             THEN LET retry == emergencyRead(r)
                  IN  IF retry.threw THEN Rejected("loadGeoTIFF", "tooLarge", << request >> \o retry.reads)
                      ELSE IF spreadThrows(r, retry.length)
                      THEN Rejected("loadGeoTIFF", "log", << request >> \o retry.reads)
                      ELSE smallGrid(r, retry.length, << request >> \o retry.reads)
             ELSE Rejected("loadGeoTIFF", "read", << request >>)

LoadRaster ==
    /\ raster # Null /\ rasterOut = Null
    /\ rasterOut' = loadGeoTIFF(raster)
    /\ UNCHANGED <<raster, meshVars, tierVars, appVars, cogVars, dtmVars, lasVars, elevVars, cntVars>>

LoadLargeRaster ==
    /\ raster # Null /\ rasterOut = Null
    /\ rasterOut' = loadLargeGeoTIFF(raster)
    /\ UNCHANGED <<raster, meshVars, tierVars, appVars, cogVars, dtmVars, lasVars, elevVars, cntVars>>

RasterInit ==
    /\ raster \in Rasters
    /\ rasterOut = Null
    /\ LasInit
    /\ ElevIdle
    /\ CntIdle
    /\ MeshIdle
    /\ TierIdle
    /\ AppIdle
    /\ CogIdle
    /\ DtmIdle

RasterNext == LoadRaster \/ LoadLargeRaster

RasterSpec == RasterInit /\ [][RasterNext]_vars

-----------------------------------------------------------------------------
(* The LOD manager on clouds too large to write out.  The canonical cloud   *)
(* of N points is the buffer [count |-> N, stride |-> 1]; a buffer          *)
(* [count |-> c, stride |-> s] holds, at index i, canonical point i * s.    *)

\* canonical point counts: below every budget, and above some or all of them
TierCounts == { 30000, 250000, 2500000 }

\* camera-to-target distances on and around the tier thresholds
TierDistances ==
    { Number(0), Num(99, 2), Number(50), Num(101, 2), Number(100), Num(201, 2),
      Number(200), Num(401, 2), Number(500), Num(1001, 2), Number(1000),
      Num(2001, 2), Number(5000) }

\* distances the camera can land on after a load: at least 100 * sqrt(3)
TierLandings == { d \in TierDistances : d.n * d.n >= 3 * 100 * 100 * d.d * d.d }

Buffer(count, stride) == [ count |-> count, stride |-> IF count <= 1 THEN 1 ELSE stride ]

\* the displayed buffer instead of the canonical one
lodSource_Displayed(canonical, shown) == shown

\* applyLOD reads this.originalGeometry.attributes
lodSource(canonical, shown) == canonical

\* the sampling loop of applyLOD: target point i is source point i * step
sampleBuffer(source, step, sampledCount) == Buffer(sampledCount, source.stride * step)

applyLODToBuffer(canonical, shown, lodLevel) ==
    LET source == lodSource(canonical, shown)
        pointCount == source.count
        pointLimit == lodLevels[lodLevel + 1].pointLimit
    IN  sampleBuffer(source, lodStep(pointCount, pointLimit),
                     lodSampledCount(pointCount, pointLimit))

\* setPointCloud on a cloud of n points, the camera landing at distance d
TierLoad(n, d) ==
    /\ tierCanonical' = Buffer(n, 1)
    /\ tierShown' = Buffer(n, 1)
    /\ tierDistance' = d
    /\ tierProduced' = [l \in 0..(Len(lodLevels) - 1) |-> Null]
    /\ tierRevisited' = FALSE
    /\ tierTicked' = FALSE
    /\ UNCHANGED tierLevel

\* the orbit controls move the camera
TierMove(d) ==
    /\ tierDistance' = d
    /\ tierTicked' = FALSE
    /\ UNCHANGED <<tierCanonical, tierShown, tierLevel, tierProduced, tierRevisited>>

\* LODManager.updateLOD
TierTick ==
    IF tierShown = Null \/ tierCanonical = Null
    THEN UNCHANGED <<tierCanonical, tierShown, tierLevel, tierDistance, tierProduced, tierRevisited,
                     tierTicked>>
    ELSE LET newLodLevel == getLodLevelForDistance(tierDistance)
         IN  IF lodLevelChanged(newLodLevel, tierLevel)
             THEN /\ tierLevel' = newLodLevel
                  /\ tierShown' = applyLODToBuffer(tierCanonical, tierShown, newLodLevel)
                  /\ tierProduced' = IF tierProduced[newLodLevel] = Null
                                     THEN [tierProduced EXCEPT ![newLodLevel] = tierShown']
                                     ELSE tierProduced
                  /\ tierRevisited' = (tierRevisited \/ tierProduced[newLodLevel] # Null)
                  /\ tierTicked' = TRUE
                  /\ UNCHANGED <<tierCanonical, tierDistance>>
             ELSE /\ tierTicked' = TRUE
                  /\ UNCHANGED <<tierCanonical, tierShown, tierLevel, tierDistance,
                                 tierProduced, tierRevisited>>

TierInit ==
    /\ tierCanonical = Null
    /\ tierShown = Null
    /\ tierLevel = 0
    /\ tierDistance = Number(5)
    /\ tierProduced = [l \in 0..(Len(lodLevels) - 1) |-> Null]
    /\ tierRevisited = FALSE
    /\ tierTicked = FALSE
    /\ LasInit
    /\ ElevIdle
    /\ CntIdle
    /\ MeshIdle
    /\ RasterIdle
    /\ AppIdle
    /\ CogIdle
    /\ DtmIdle

TierNext ==
    \/ /\ \E n \in TierCounts, d \in TierLandings : TierLoad(n, d)
       /\ UNCHANGED <<lasVars, elevVars, cntVars, meshVars, rasterVars, appVars, cogVars, dtmVars>>
    \/ /\ \E d \in TierDistances : TierMove(d)
       /\ UNCHANGED <<lasVars, elevVars, cntVars, meshVars, rasterVars, appVars, cogVars, dtmVars>>
    \/ /\ TierTick
       /\ UNCHANGED <<lasVars, elevVars, cntVars, meshVars, rasterVars, appVars, cogVars, dtmVars>>

TierSpec == TierInit /\ [][TierNext]_vars

-----------------------------------------------------------------------------
(* The application shell: uploads, the viewer's load effect and settings   *)

\* uploads followed in one run
MaxFiles == 3

\* file.name as stem and extension, file.size in megabytes
UploadNames == { [stem |-> "dem", extension |-> "tif"],
                 [stem |-> "DEM", extension |-> "TIFF"],
                 [stem |-> "notes", extension |-> "txt"] }
UploadSizesMB == { 10, 600, 1100 }
UploadFiles == [ name : UploadNames, sizeMB : UploadSizesMB ]

toLowerCase(extension) ==
    CASE extension = "TIFF" -> "tiff"
      [] OTHER -> extension

\* the checks of handleFileSelect in front of onFileLoad
acceptsFile(uploaded, confirmed) ==
    /\ toLowerCase(uploaded.name.extension) \in { "tif", "tiff" }
    /\ uploaded.sizeMB <= 1024
    /\ (uploaded.sizeMB > 500 => confirmed)

\* mesh.name.startsWith('terrain')
startsWithTerrain(name) == name \in { "terrain", "terrain-main" }

\* the geotiffData effect: dispose the terrain meshes of the scene
disposeTerrain(meshes) == SelectSeq(meshes, LAMBDA m : ~startsWithTerrain(m.name))

\* scene.getMeshByName: index of the first mesh of that name, 0 when none
getMeshByName(meshes, name) ==
    IF \E i \in 1..Len(meshes) : meshes[i].name = name
    THEN CHOOSE i \in 1..Len(meshes) :
            /\ meshes[i].name = name
            /\ \A j \in 1..(i - 1) : meshes[j].name # name
    ELSE 0

\* updateTerrainSettings with the settings of the current render
updateTerrainSettings(meshes, wireframe) ==
    LET i == getMeshByName(meshes, "terrain-main")
    IN  IF i = 0 THEN meshes
        ELSE [meshes EXCEPT ![i].wireframe = wireframe]

\* handleFileSelect from the dialog (the input is disabled while isLoading)
\* or from a drop on the drop zone, up to the await in handleFileLoad
handleFileSelect(uploaded, viaDrop, confirmed) ==
    /\ viaDrop \/ ~appIsLoading
    /\ appUploads < MaxFiles
    /\ IF acceptsFile(uploaded, confirmed)
       THEN /\ appIsLoading' = TRUE
            /\ appUploads' = appUploads + 1
            /\ appStatus' = Append(appStatus, "reading")
            /\ UNCHANGED <<appGeotiffData, appLoads, appMeshes, appHeightScale, appWireframe>>
       ELSE UNCHANGED appVars

\* file.arrayBuffer() of upload id settles: the rest of handleFileLoad and,
\* when the buffer was set, the viewer's geotiffData effect
arrayBufferSettles(id, ok) ==
    /\ id \in 1..appUploads
    /\ appStatus[id] = "reading"
    /\ appIsLoading' = FALSE
    /\ IF ok
       THEN /\ appGeotiffData' = id
            /\ appMeshes' = disposeTerrain(appMeshes)
            /\ appLoads' = appLoads \cup
                  { [upload |-> id, heightScale |-> appHeightScale, wireframe |-> appWireframe] }
            /\ appStatus' = [appStatus EXCEPT ![id] = "loading"]
       ELSE /\ appStatus' = [appStatus EXCEPT ![id] = "readFailed"]
            /\ UNCHANGED <<appGeotiffData, appMeshes, appLoads>>
    /\ UNCHANGED <<appUploads, appHeightScale, appWireframe>>

\* loadGeoTIFFData after its await: createTerrainMesh with the settings the
\* effect's render held, or the catch
loadGeoTIFFDataSettles(load, ok) ==
    /\ load \in appLoads
    /\ appLoads' = appLoads \ { load }
    /\ IF ok
       THEN /\ appMeshes' = Append(appMeshes,
                  [name |-> "terrain-main", upload |-> load.upload,
                   heightScale |-> load.heightScale, wireframe |-> load.wireframe])
            /\ appStatus' = [appStatus EXCEPT ![load.upload] = "built"]
       ELSE /\ appStatus' = [appStatus EXCEPT ![load.upload] = "loadFailed"]
            /\ UNCHANGED appMeshes
    /\ UNCHANGED <<appIsLoading, appGeotiffData, appUploads, appHeightScale, appWireframe>>

\* handleSettingsChange from the control panel (disabled without geotiffData)
\* and the viewer's settings effect
handleSettingsChange(heightScale, wireframe) ==
    /\ appGeotiffData # 0
    /\ appHeightScale' = heightScale
    /\ appWireframe' = wireframe
    /\ appMeshes' = updateTerrainSettings(appMeshes, wireframe)
    /\ UNCHANGED <<appIsLoading, appGeotiffData, appUploads, appStatus, appLoads>>

AppInit ==
    /\ AppIdle
    /\ LasInit
    /\ ElevIdle
    /\ CntIdle
    /\ MeshIdle
    /\ RasterIdle
    /\ TierIdle
    /\ CogIdle
    /\ DtmIdle

AppNext ==
    \/ /\ \E uploaded \in UploadFiles, viaDrop \in BOOLEAN, confirmed \in BOOLEAN :
             handleFileSelect(uploaded, viaDrop, confirmed)
       /\ UNCHANGED <<lasVars, elevVars, cntVars, meshVars, rasterVars, tierVars, cogVars, dtmVars>>
    \/ /\ \E id \in 1..MaxFiles, ok \in BOOLEAN : arrayBufferSettles(id, ok)
       /\ UNCHANGED <<lasVars, elevVars, cntVars, meshVars, rasterVars, tierVars, cogVars, dtmVars>>
    \/ /\ \E load \in appLoads, ok \in BOOLEAN : loadGeoTIFFDataSettles(load, ok)
       /\ UNCHANGED <<lasVars, elevVars, cntVars, meshVars, rasterVars, tierVars, cogVars, dtmVars>>
    \/ /\ \E heightScale \in HeightScales, wireframe \in BOOLEAN :
             handleSettingsChange(heightScale, wireframe)
       /\ UNCHANGED <<lasVars, elevVars, cntVars, meshVars, rasterVars, tierVars, cogVars, dtmVars>>

AppSpec == AppInit /\ [][AppNext]_vars

-----------------------------------------------------------------------------
(* COGLoader: the tile cache, a Map kept as its entries in insertion order *)

maxCacheSize == 50

\* loads (cache misses) started in one run, and loads in flight together
MaxCogLoads == 52
MaxCogPending == 2

\* cache.has(cacheKey)
cacheHas(cache, key) == \E i \in 1..Len(cache) : cache[i].key = key

\* cache.get(cacheKey)
cacheGet(cache, key) == cache[CHOOSE i \in 1..Len(cache) : cache[i].key = key].tile

\* cache.set(cacheKey, tileData): a key already present keeps its place
cacheSet(cache, key, tile, clock) ==
    IF cacheHas(cache, key)
    THEN [i \in 1..Len(cache) |->
            IF cache[i].key = key THEN [cache[i] EXCEPT !.tile = tile] ELSE cache[i]]
    ELSE Append(cache, [key |-> key, tile |-> tile, inserted |-> clock])

\* the entry set last instead of the first
evictedIndex_Last(cache) == Len(cache)

\* cache.keys().next().value: the first entry in insertion order
evictedIndex(cache) == 1

\* cache.delete of the entry at place k
cacheDelete(cache, k) ==
    [i \in 1..(Len(cache) - 1) |-> IF i < k THEN cache[i] ELSE cache[i + 1]]

manageCacheSize(cache) ==
    IF Len(cache) > maxCacheSize
    THEN cacheDelete(cache, evictedIndex(cache))
    ELSE cache

\* keys a caller asks for.  While a load is in flight and the cache is more
\* than one entry short of its limit, callers ask for the oldest and the
\* newest cached key only; otherwise also for a new key, for the key evicted
\* last and for the keys being loaded.
CogKeys ==
    { k \in ((IF Len(cogCache) = 0 THEN {}
              ELSE { cogCache[1].key, cogCache[Len(cogCache)].key })
             \cup (IF cogPending = {} \/ Len(cogCache) + 1 >= maxCacheSize
                   THEN { cogNextKey, cogEvicted } \cup { c.key : c \in cogPending }
                   ELSE {})) : k # 0 }

\* loadTileFromCOG up to its await: a hit returns, a miss starts generating
loadTileFromCOG(key) ==
    IF cacheHas(cogCache, key)
    THEN /\ cogReturned' = [key |-> key, tile |-> cacheGet(cogCache, key), hit |-> TRUE]
         /\ UNCHANGED <<cogCache, cogPending, cogLoads, cogNextKey, cogEvicted>>
    ELSE /\ cogLoads < MaxCogLoads
         /\ Cardinality(cogPending) < MaxCogPending
         /\ cogLoads' = cogLoads + 1
         /\ cogPending' = cogPending \cup { [key |-> key, tile |-> cogLoads + 1] }
         /\ cogNextKey' = IF key = cogNextKey THEN cogNextKey + 1 ELSE cogNextKey
         /\ UNCHANGED <<cogCache, cogReturned, cogEvicted>>

\* loadTileFromCOG after its await: store, trim and return.  The generator
\* awaited is a synchronous computation without a failing path, so the catch
\* that rethrows is not entered.
loadTileFromCOGSettles(call) ==
    /\ call \in cogPending
    /\ cogPending' = cogPending \ { call }
    /\ LET stored == cacheSet(cogCache, call.key, call.tile, call.tile)
       IN  /\ cogCache' = manageCacheSize(stored)
           /\ cogEvicted' = IF Len(stored) > maxCacheSize
                            THEN stored[evictedIndex(stored)].key ELSE cogEvicted
           /\ cogReturned' = [key |-> call.key, tile |-> call.tile, hit |-> FALSE]
    /\ UNCHANGED <<cogLoads, cogNextKey>>

CogInit ==
    /\ CogIdle
    /\ LasInit
    /\ ElevIdle
    /\ CntIdle
    /\ MeshIdle
    /\ RasterIdle
    /\ TierIdle
    /\ AppIdle
    /\ DtmIdle

CogNext ==
    \/ /\ \E key \in CogKeys : loadTileFromCOG(key)
       /\ UNCHANGED <<lasVars, elevVars, cntVars, meshVars, rasterVars, tierVars, appVars, dtmVars>>
    \/ /\ \E call \in cogPending : loadTileFromCOGSettles(call)
       /\ UNCHANGED <<lasVars, elevVars, cntVars, meshVars, rasterVars, tierVars, appVars, dtmVars>>

CogSpec == CogInit /\ [][CogNext]_vars

-----------------------------------------------------------------------------
(* DynamicTerrainManager: tiles around the camera, loaded asynchronously *)

loadRadius == 2
tileSpacing == 1000
updateThreshold == 100

\* calls of updateTerrain that get past the distance check, and of dispose
MaxTerrainCalls == 3

\* camera.position at the moment updateTerrain is called: where the viewer
\* puts its camera (radius 200 about the origin), and one tile further along x
CameraPositions ==
    { [x |-> 0, y |-> 100, z |-> -173],
      [x |-> 1000, y |-> 100, z |-> -173] }

\* Vector3.Distance(a, b) < threshold, on integer coordinates
DistanceBelow(a, b, threshold) ==
    (a.x - b.x) * (a.x - b.x) + (a.y - b.y) * (a.y - b.y) + (a.z - b.z) * (a.z - b.z)
        < threshold * threshold

\* `${x}_${z}`: one key per pair of tile coordinates
tileKey(x, z) == <<x, z>>

getTileCoordinate(worldPosition) ==
    LET x == worldPosition.x \div tileSpacing
        z == worldPosition.z \div tileSpacing
    IN  [x |-> x, z |-> z, key |-> tileKey(x, z)]

\* the tiles in the order the two loops push them: x outer, z inner
calculateRequiredTiles(centerTile) ==
    LET side == 2 * loadRadius + 1
    IN  [i \in 1..(side * side) |->
            LET x == centerTile.x - loadRadius + ((i - 1) \div side)
                z == centerTile.z - loadRadius + ((i - 1) % side)
            IN  [x |-> x, z |-> z, key |-> tileKey(x, z)]]

requiredKeys(requiredTiles) == { requiredTiles[i].key : i \in 1..Len(requiredTiles) }

\* unloadUnusedTiles: the tiles left in the Map, and whether scene.remove threw
\* on the first tile to remove (nothing is deleted before the call)
unloadUnusedTiles(tiles, requiredTiles) ==
    LET tilesToRemove == tiles \ requiredKeys(requiredTiles)
    IN  IF tilesToRemove # {} /\ sceneThrows
        THEN [terrainTiles |-> tiles, threw |-> TRUE]
        ELSE [terrainTiles |-> tiles \ tilesToRemove, threw |-> FALSE]

\* the keys updateTerrain hands to loadTile, in order
tilesToLoad(requiredTiles, tiles, loading) ==
    LET wanted == SelectSeq(requiredTiles,
                            LAMBDA t : t.key \notin tiles /\ t.key \notin loading)
    IN  [i \in 1..Len(wanted) |-> wanted[i].key]

\* updateTerrain, with each loadTile it starts run up to its await: the key
\* joins loadingTiles and the call waits for its tile data
updateTerrain(cameraPosition) ==
    IF DistanceBelow(cameraPosition, lastCameraPosition, updateThreshold)
    THEN UNCHANGED dtmVars
    ELSE LET requiredTiles == calculateRequiredTiles(getTileCoordinate(cameraPosition))
             unloaded == unloadUnusedTiles(terrainTiles, requiredTiles)
             started == IF unloaded.threw THEN << >>
                        ELSE tilesToLoad(requiredTiles, unloaded.terrainTiles, loadingTiles)
         IN  /\ terrainCalls < MaxTerrainCalls
             /\ terrainCalls' = terrainCalls + 1
             /\ lastCameraPosition' = cameraPosition
             /\ terrainTiles' = unloaded.terrainTiles
             /\ loadingTiles' = loadingTiles \cup { started[i] : i \in 1..Len(started) }
             /\ tileLoads' = tileLoads \o started
             /\ lastRequired' = requiredKeys(requiredTiles)
             /\ lastCall' = "updateTerrain"
             /\ UNCHANGED sceneThrows

\* loadTile after its await: the tile data are there, the mesh is stored and
\* the key leaves loadingTiles; a throw of scene.add comes after the set and is
\* caught.  The awaited promises are resolved when created, so the calls
\* resume in the order they were started.
loadTileSettles ==
    /\ tileLoads # << >>
    /\ terrainTiles' = terrainTiles \cup { Head(tileLoads) }
    /\ loadingTiles' = loadingTiles \ { Head(tileLoads) }
    /\ tileLoads' = Tail(tileLoads)
    /\ UNCHANGED <<lastCameraPosition, sceneThrows, lastRequired, lastCall, terrainCalls>>

\* dispose: a throw of scene.remove on the first mesh leaves both collections
dispose ==
    /\ terrainCalls < MaxTerrainCalls
    /\ terrainCalls' = terrainCalls + 1
    /\ IF terrainTiles # {} /\ sceneThrows
       THEN UNCHANGED <<terrainTiles, loadingTiles>>
       ELSE terrainTiles' = {} /\ loadingTiles' = {}
    /\ lastCall' = "dispose"
    /\ UNCHANGED <<lastCameraPosition, tileLoads, sceneThrows, lastRequired>>

DtmInit ==
    /\ terrainTiles = {}
    /\ loadingTiles = {}
    /\ lastCameraPosition = [x |-> 0, y |-> 0, z |-> 0]
    /\ tileLoads = << >>
    /\ sceneThrows \in BOOLEAN
    /\ lastRequired = {}
    /\ lastCall = "none"
    /\ terrainCalls = 0
    /\ LasInit
    /\ ElevIdle
    /\ CntIdle
    /\ MeshIdle
    /\ RasterIdle
    /\ TierIdle
    /\ AppIdle
    /\ CogIdle

DtmNext ==
    \/ /\ \E cameraPosition \in CameraPositions : updateTerrain(cameraPosition)
       /\ UNCHANGED <<lasVars, elevVars, cntVars, meshVars, rasterVars, tierVars, appVars, cogVars>>
    \/ /\ loadTileSettles
       /\ UNCHANGED <<lasVars, elevVars, cntVars, meshVars, rasterVars, tierVars, appVars, cogVars>>
    \/ /\ dispose
       /\ UNCHANGED <<lasVars, elevVars, cntVars, meshVars, rasterVars, tierVars, appVars, cogVars>>

DtmSpec == DtmInit /\ [][DtmNext]_vars

-----------------------------------------------------------------------------
(* Properties *)

\* the three header conditions: bytes 0..3 are "LASF", major 1, minor 0..4
HeaderBytesValid(f) ==
    f.magic = "LASF" /\ f.versionMajor = 1 /\ f.versionMinor \in 0..4

\* C1: for every accepted header, totalPoints is extendedLow + extendedHigh * 2^32
\* (kept as its two words) when the minor version is >= 4 and that value is
\* positive, and the legacy count at byte 107 in every other case.
C1_TotalPoints ==
    header # Null =>
        LET extended == /\ file.versionMinor >= 4
                        /\ (file.extendedLow > 0 \/ file.extendedHigh > 0)
        IN  /\ header.totalPoints.lo =
                  (IF extended THEN file.extendedLow ELSE file.numberOfPointRecords)
            /\ header.totalPoints.hi = (IF extended THEN file.extendedHigh ELSE 0)

\* an accepted 1.4 header whose extended count exceeds 32 bits and differs
\* from its legacy count
C1_Witness ==
    /\ header # Null
    /\ file.versionMinor = 4
    /\ file.extendedHigh > 0
    /\ file.numberOfPointRecords = 3
    /\ header.totalPoints = [lo |-> file.extendedLow, hi |-> file.extendedHigh]

\* C2: a load resolves, and a header is returned, only for a buffer with magic
\* "LASF", major 1 and minor 0..4; a load of any other buffer ends in the header
\* error, produces no points, and leaves the displayed cloud, the canonical
\* geometry, the active LOD level and the camera as they were.
C2_RejectedLoadChangesNothing ==
    [][ (file' # Null /\ LoadLASFile(file')) =>
          /\ (header' # Null \/ loadResult' = "resolved") => HeaderBytesValid(file')
          /\ ~HeaderBytesValid(file') =>
                /\ loadResult' = "headerError"
                /\ header' = Null
                /\ points' = <<>>
                /\ displayed' = displayed
                /\ originalGeometry' = originalGeometry
                /\ currentLodLevel' = currentLodLevel
                /\ distance' = distance ]_vars

\* a buffer with a bad magic or version was rejected while a resampled cloud
\* was on display
C2_Witness ==
    /\ loadResult = "headerError"
    /\ ~HeaderBytesValid(file)
    /\ displayed # Null
    /\ currentLodLevel # 0

\* the point formats named by the LAS 1.0-1.4 layouts and by the parser
SupportedFormats == 0..10 \cup {135}

\* C3: a file with valid magic and version whose point-data-format code is not
\* a supported one (such as 200) is rejected: the load does not resolve, no
\* points are returned and none are displayed.
C3_UnsupportedFormatRejected ==
    (/\ loadResult # "none"
     /\ HeaderBytesValid(file)
     /\ file.pointDataFormat \notin SupportedFormats)
    => (loadResult # "resolved" /\ points = <<>> /\ displayed = Null)

\* complete records of the header's record length between the point-data
\* offset and the end of the buffer
CompleteRecords(f) ==
    IF f.byteLength < f.pointDataOffset THEN 0
    ELSE (f.byteLength - f.pointDataOffset) \div f.pointDataRecordLength

\* C4: when the header declares more points than the k >= 1 complete records
\* the buffer holds, the parser returns exactly the first k records in file
\* order and the load resolves with k points.
C4_TruncatedReturnsFirstK ==
    (/\ header # Null
     /\ CompleteRecords(file) >= 1
     /\ IndexBelow(CompleteRecords(file), header.totalPoints))
    => /\ loadResult = "resolved"
       /\ Len(points) = CompleteRecords(file)
       /\ Len(originalGeometry.positions) = 3 * CompleteRecords(file)
       /\ \A i \in 1..Len(points) :
             LET recordOffset == file.pointDataOffset + (i - 1) * file.pointDataRecordLength
             IN  /\ points[i].x = Int32At(file, recordOffset)
                 /\ points[i].y = Int32At(file, recordOffset + 4)
                 /\ points[i].z = Int32At(file, recordOffset + 8)

\* the colour offset of each colour-carrying format, as the claim lists them
StatedColorOffset(fmt) ==
    CASE fmt \in {2, 135} -> 20
      [] fmt \in {3, 5, 6, 7, 10} -> 28
      [] fmt = 8 -> 30

InUnitInterval(a) == Leq(Number(0), a) /\ Leq(a, Number(1))

\* C5: for every parsed point of a colour-carrying format whose six colour
\* bytes lie within the buffer (ending at the buffer end included), red, green
\* and blue equal rawUint16/65535 and lie in [0,1]; colour is absent only when
\* the colour bytes would extend past the buffer end.
C5_ColorDecoded ==
    (header # Null /\ header.pointDataFormat \in ColorFormats) =>
        \A i \in 1..Len(points) :
            LET at == file.pointDataOffset + (i - 1) * file.pointDataRecordLength
                      + StatedColorOffset(header.pointDataFormat)
            IN  /\ at + 6 <= file.byteLength =>
                      /\ points[i].red = Num(Uint16At(file, at), 65535)
                      /\ points[i].green = Num(Uint16At(file, at + 2), 65535)
                      /\ points[i].blue = Num(Uint16At(file, at + 4), 65535)
                      /\ InUnitInterval(points[i].red)
                      /\ InUnitInterval(points[i].green)
                      /\ InUnitInterval(points[i].blue)
                /\ ~hasDecodedColor(points[i]) => at + 6 > file.byteLength

\* raw * scale + offset - (max + min) / 2
StatedCoordinate(raw, scale, offset, max, min) ==
    Sub(Add(Mul(Number(raw), scale), offset), Div(Add(max, min), Number(2)))

\* raw is the midpoint of integer bounds, read with scale 1 and offset 0
AtMidpoint(raw, scale, offset, max, min) ==
    /\ scale = Number(1)
    /\ offset = Number(0)
    /\ max.d = 1
    /\ min.d = 1
    /\ 2 * raw = max.n + min.n

\* C6: after a load, the position array holds, for every parsed point and
\* axis, raw * scale + offset - (max + min)/2 with the header's scale, offset
\* and bounds of that axis; with scale 1 and offset 0 a raw value at the
\* midpoint of the bounds is stored as 0.
C6_NormalizedCoordinates ==
    loadResult = "resolved" =>
        /\ Len(originalGeometry.positions) = 3 * Len(points)
        /\ \A i \in 1..Len(points) :
              LET px == originalGeometry.positions[3 * (i - 1) + 1]
                  py == originalGeometry.positions[3 * (i - 1) + 2]
                  pz == originalGeometry.positions[3 * (i - 1) + 3]
              IN  /\ px = StatedCoordinate(points[i].x, header.xScale, header.xOffset,
                                           header.maxX, header.minX)
                  /\ py = StatedCoordinate(points[i].y, header.yScale, header.yOffset,
                                           header.maxY, header.minY)
                  /\ pz = StatedCoordinate(points[i].z, header.zScale, header.zOffset,
                                           header.maxZ, header.minZ)
                  /\ AtMidpoint(points[i].x, header.xScale, header.xOffset,
                                header.maxX, header.minX) => px = Number(0)
                  /\ AtMidpoint(points[i].y, header.yScale, header.yOffset,
                                header.maxY, header.minY) => py = Number(0)
                  /\ AtMidpoint(points[i].z, header.zScale, header.zOffset,
                                header.maxZ, header.minZ) => pz = Number(0)

\* a load of three points with a half-unit scale and a nonzero offset, the
\* second point lying off the centre on every axis, and a load whose first
\* point has its raw x at the midpoint of the x bounds
C6_Witness ==
    /\ loadResult = "resolved"
    /\ \/ /\ Len(points) = 3
          /\ header.xScale = Half
          /\ header.xOffset # Number(0)
          /\ \A a \in 1..3 : originalGeometry.positions[3 + a] # Number(0)
       \/ /\ AtMidpoint(points[1].x, header.xScale, header.xOffset, header.maxX, header.minX)
          /\ originalGeometry.positions[1] = Number(0)
          /\ originalGeometry.positions[2] # Number(0)

\* clamp(x, 0, 1)
Clamp01(x) == IF Lt(x, Number(0)) THEN Number(0) ELSE IF Lt(Number(1), x) THEN Number(1) ELSE x

\* the guarded fraction: 0 when the z range is zero
StatedHeightFraction(zNorm, h) ==
    LET centerZ == Div(Add(h.maxZ, h.minZ), Number(2))
        low == Sub(h.minZ, centerZ)
        high == Sub(h.maxZ, centerZ)
    IN  IF h.maxZ = h.minZ THEN Number(0)
        ELSE Clamp01(Div(Sub(zNorm, low), Sub(high, low)))

\* C7: every point without a decoded colour gets the colour (t, 1 - t, 0.5),
\* t the clamped height fraction, and t = 0, colour (0, 1, 0.5), when the
\* header has maxZ = minZ.
C7_FallbackColor ==
    loadResult = "resolved" =>
        \A i \in 1..Len(points) :
            ~hasDecodedColor(points[i]) =>
                LET t == StatedHeightFraction(originalGeometry.positions[3 * (i - 1) + 3],
                                              header)
                IN  /\ originalGeometry.colors[3 * (i - 1) + 1] = t
                    /\ originalGeometry.colors[3 * (i - 1) + 2] = Sub(Number(1), t)
                    /\ originalGeometry.colors[3 * (i - 1) + 3] = Half

\* C8: an update tick whose distance selects the active tier runs no resample
\* and leaves the displayed buffer and the active tier as they were; a tick
\* that gets past its guard leaves the active tier equal to the tier it
\* selected, and applyLOD runs only on a tick whose selected tier differs from
\* the active tier.
C8_NoResampleOnSameTier ==
    [][ updateLOD =>
          LET selected == getLodLevelForDistance(distance)
          IN  /\ (displayed # Null /\ originalGeometry # Null) => currentLodLevel' = selected
              /\ selected = currentLodLevel =>
                    /\ ~lodApplied'
                    /\ displayed' = displayed
                    /\ currentLodLevel' = currentLodLevel
              /\ lodApplied' => selected # currentLodLevel ]_vars

\* a cloud is displayed, an earlier tick resampled it to a tier other than the
\* initial one, and the last tick, selecting that same tier, did nothing
C8_Witness ==
    /\ displayed # Null
    /\ currentLodLevel # 0
    /\ currentLodLevel = getLodLevelForDistance(distance)
    /\ ~lodApplied

\* C9: a resample of N >= 1 points under a tier budget B displays
\* floor(N / max(1, floor(N / B))) points, at most N and, when N >= B, at
\* least B / 2.
C9_SampledCount ==
    cntSampled # Null =>
        LET N == cntPoints
            B == lodLevels[cntLevel + 1].pointLimit
            stride == IF N \div B > 1 THEN N \div B ELSE 1
        IN  /\ cntSampled.count = N \div stride
            /\ cntSampled.count <= N
            /\ N >= B => 2 * cntSampled.count >= B

\* a resample with a stride above 1 that drops points
C9_Witness ==
    /\ cntSampled # Null
    /\ cntPoints >= 2 * lodLevels[cntLevel + 1].pointLimit + 1
    /\ cntSampled.count < cntPoints

\* no-data sentinels and invalid samples
IsNoDataOrInvalid(v) ==
    \/ v = Null
    \/ v = Undefined
    \/ v = NaN
    \/ v \in { Number(-9999), Number(-32768), Number(0) }

\* C10: normalizeElevationData returns an array of the input's length in which
\* every no-data sentinel (-9999, -32768, 0) and every invalid sample (NaN,
\* null, undefined) is 0 at its own index, whatever the other samples are.
C10_NoDataToZero ==
    elevOut # Null =>
        /\ Len(elevOut.array) = Len(elevIn)
        /\ \A j \in 1..Len(elevIn) :
              IsNoDataOrInvalid(elevIn[j]) => elevOut.array[j] = Number(0)

\* a grid mixing a sentinel, an invalid sample and a valid sample that is
\* normalized to a nonzero value
C10_Witness ==
    /\ elevOut # Null
    /\ \E j, k, m \in 1..Len(elevIn) :
          /\ elevIn[j] \in { Number(-9999), Number(-32768), Number(0) }
          /\ elevIn[k] \in { NaN, Null, Undefined }
          /\ ~IsNoDataOrInvalid(elevIn[m])
          /\ elevOut.array[m] # Number(0)


\* C11: every terrain mesh built from a grid of width w >= 2 and height
\* h >= 2 has w*h vertices and 2*(w-1)*(h-1) triangles, and every index it
\* emits is below w*h (a cell with an index at or beyond the vertex count is
\* not emitted).
C11_MeshTopology ==
    (meshOut # Null /\ meshOut.built) =>
        LET w == gridIn.width
            h == gridIn.height
        IN  /\ meshOut.vertexCount = w * h
            /\ Len(meshOut.heights) = w * h
            /\ Len(meshOut.indices) = 3 * (2 * (w - 1) * (h - 1))
            /\ \A i \in 1..Len(meshOut.indices) :
                  meshOut.indices[i] >= 0 /\ meshOut.indices[i] < w * h

\* a 3 x 2 grid whose band is one sample long, built by the range-checking builder
C11_Witness ==
    /\ meshOut # Null
    /\ meshOut.built
    /\ meshOut.builder = "universal"
    /\ gridIn.width = 3
    /\ gridIn.height = 2
    /\ Len(gridIn.bands[1]) = 7
    /\ Len(meshOut.indices) = 12

\* all samples of the elevation band are one and the same finite value
AllSamplesEqual(grid) ==
    /\ Len(grid.bands) = 1
    /\ Len(grid.bands[1]) = grid.width * grid.height
    /\ \A i \in 1..Len(grid.bands[1]) :
          IsFinite(grid.bands[1][i]) /\ grid.bands[1][i] = grid.bands[1][1]

\* the colour the builder's own ramp gives normalized elevation 0.5
RampAtHalf(builder) ==
    IF builder = "three" THEN getTerrainColor(Half) ELSE rampColor_Universal(Half)

\* C12: a grid whose samples are all equal still builds with its full
\* triangle count, and every vertex colour is the ramp colour of normalized
\* elevation 0.5.
C12_FlatGridMidpointColor ==
    (meshOut # Null /\ meshOut.builder \in {"three", "universal"} /\ AllSamplesEqual(gridIn)) =>
        /\ meshOut.built
        /\ Len(meshOut.indices) = 3 * (2 * (gridIn.width - 1) * (gridIn.height - 1))
        /\ Len(meshOut.colors) = gridIn.width * gridIn.height
        /\ \A i \in 1..Len(meshOut.colors) : meshOut.colors[i] = RampAtHalf(meshOut.builder)


\* the readRasters call whose band the loader went on with
LastRead(out) == out.reads[Len(out.reads)]

\* C13: whenever a load resamples the raster, whatever the file's byte
\* size, the returned grid records the scale factor, the original dimensions
\* and the target dimensions; a 20000 x 20000 raster is read at 1024 x 1024
\* and still reports 20000 x 20000 as its original dimensions.
C13_ResampleRecorded ==
    (rasterOut # Null /\ rasterOut.status = "resolved" /\ LastRead(rasterOut).resampled) =>
        /\ { "scaleFactor", "originalWidth", "originalHeight", "width", "height" }
              \subseteq rasterOut.keys
        /\ rasterOut.originalWidth = raster.width
        /\ rasterOut.originalHeight = raster.height
        /\ rasterOut.width = LastRead(rasterOut).width
        /\ rasterOut.height = LastRead(rasterOut).height
        /\ IsFinite(rasterOut.scaleFactor) /\ Lt(rasterOut.scaleFactor, Number(1))
        /\ (raster.width = 20000 /\ raster.height = 20000) =>
              LastRead(rasterOut).width = 1024 /\ LastRead(rasterOut).height = 1024

\* C14: every grid a load returns has as many elevation samples as its
\* width times its height, also after a read at reduced resolution and when
\* the decoder's band length disagrees with the requested size.
C14_LengthMatchesDimensions ==
    (rasterOut # Null /\ rasterOut.status = "resolved") =>
        rasterOut.length = rasterOut.width * rasterOut.height

\* the primary read threw with a message the loader recognises as exhaustion
FailsWithSignature(r) ==
    /\ r.primary \in ErrorMessages
    /\ \/ messageIncludes(r.primary, "maximum call stack size exceeded")
       \/ messageIncludes(r.primary, "RangeError")

\* C16: when the primary read of loadGeoTIFF fails with the exhaustion
\* signature the raster is read exactly once more, at the emergency
\* resolution (larger dimension 256); the load succeeds with that grid when
\* the retry read succeeds and fails only when the retry fails too.  No load
\* reads the raster more than twice.
C16_EmergencyRetry ==
    (rasterOut # Null /\ rasterOut.loader = "loadGeoTIFF"
       /\ raster.byteLength <= largeFileThreshold /\ raster.decodes) =>
        /\ Len(rasterOut.reads) <= 2
        /\ ~FailsWithSignature(raster) => Len(rasterOut.reads) = 1
        /\ FailsWithSignature(raster) =>
              /\ Len(rasterOut.reads) = 2
              /\ rasterOut.reads[2].emergency
              /\ MaxNat(rasterOut.reads[2].width, rasterOut.reads[2].height) = 256
              /\ (raster.emergency = "ok" /\ ~raster.spreadOverflows) =>
                    /\ rasterOut.status = "resolved"
                    /\ rasterOut.length = rasterOut.reads[2].width * rasterOut.reads[2].height
                                          + raster.lengthDelta
              /\ raster.emergency # "ok" => rasterOut.status = "rejected"


\* C15: no LOD update tick modifies the canonical buffer, and when a tick
\* resamples for a tier that was already produced since the load, the
\* displayed buffer is exactly the one that tier produced before.
C15_CanonicalImmutable ==
    [][ TierTick =>
          /\ tierCanonical' = tierCanonical
          /\ (tierCanonical # Null /\ tierLevel' # tierLevel
                /\ tierProduced[tierLevel'] # Null) =>
                tierShown' = tierProduced[tierLevel'] ]_vars

\* a decimating tier (stride above 1) has been produced a second time
C15_Witness ==
    /\ tierCanonical # Null
    /\ tierRevisited
    /\ tierProduced[tierLevel] # Null
    /\ tierShown = tierProduced[tierLevel]
    /\ tierShown.stride > 1
    /\ tierCanonical = Buffer(250000, 1)

\* the ladder of maximum distances as stated
StatedLadder ==
    << Number(50), Number(100), Number(200), Number(500), Number(1000), Infinity >>

\* the least index whose maximum distance is at least d
LeastTier(d) ==
    CHOOSE i \in 0..5 :
        /\ Leq(d, StatedLadder[i + 1])
        /\ \A j \in 0..(i - 1) : ~Leq(d, StatedLadder[j + 1])

\* C20: an update tick selects, for the distance d it measures, the least
\* tier whose maximum distance is at least d over {50,100,200,500,1000,inf},
\* and no smaller distance selects a farther tier.
C20_TierSelection ==
    [][ (TierTick /\ tierCanonical # Null) =>
          /\ tierLevel' = LeastTier(tierDistance)
          /\ \A d \in TierDistances :
                Leq(d, tierDistance) =>
                    getLodLevelForDistance(d) <= getLodLevelForDistance(tierDistance) ]_vars

\* a tick has put the manager on tier 1 for a distance exactly on its threshold
C20_Witness ==
    /\ tierCanonical # Null
    /\ tierDistance = Number(100)
    /\ tierLevel = 1
    /\ tierProduced[1] # Null


\* C19: every header the header parser returns has a point-record length of
\* at least 12 bytes, and of at least colorOffset + 6 bytes when its format
\* carries colour; a header below that minimum is not accepted.
C19_RecordLengthValidated ==
    header # Null =>
        /\ header.pointDataRecordLength >= 12
        /\ header.pointDataFormat \in ColorFormats =>
              header.pointDataRecordLength >= colorOffset(header.pointDataFormat) + 6


\* no upload is being read and no viewer load is awaiting its loader
AppQuiescent ==
    /\ \A id \in 1..appUploads : appStatus[id] # "reading"
    /\ appLoads = {}

TerrainMain == { i \in 1..Len(appMeshes) : appMeshes[i].name = "terrain-main" }

\* C17: under any interleaving of uploads (dialog or drop) with the loads
\* they start, at most one upload is being read or built at a time, and once
\* everything has settled with the most recent upload built, the scene holds
\* exactly one 'terrain-main' mesh and it comes from that upload.
C17_LoadsSerialized ==
    /\ Cardinality({ id \in 1..appUploads : appStatus[id] \in { "reading", "loading" } }) <= 1
    /\ (AppQuiescent /\ appUploads >= 1 /\ appStatus[appUploads] = "built") =>
          /\ Cardinality(TerrainMain) = 1
          /\ \A i \in TerrainMain : appMeshes[i].upload = appUploads

\* C18: once loads have settled, every displayed 'terrain-main' mesh was
\* built with the height scale the settings hold now.
C18_MeshFollowsHeightScale ==
    AppQuiescent =>
        \A i \in TerrainMain : appMeshes[i].heightScale = appHeightScale

\* the stride decimation of a canonical cloud of n points for a tier
StatedDecimation(n, tier) ==
    LET budget == lodLevels[tier + 1].pointLimit
        stride == IF n \div budget > 1 THEN n \div budget ELSE 1
    IN  Buffer(n \div stride, stride)

\* C21: after every update tick on a loaded cloud, whatever the distance and
\* whether the cloud came from the first load or a reload, the displayed
\* buffer is the stride decimation of the canonical cloud for the tier the
\* current distance selects.
C21_TickDisplaysSelectedTier ==
    tierTicked =>
        tierShown = StatedDecimation(tierCanonical.count,
                                     getLodLevelForDistance(tierDistance))

\* C22: after a resample of N points with stride s = max(1, floor(N / budget)),
\* displayed point i holds, for position and colour alike, the three
\* components of canonical point i * s, for the first, second, middle and
\* last of the floor(N / s) displayed points, and i * s is below N.
C22_StrideSampling ==
    cntSampled # Null =>
        LET N == cntPoints
            budget == lodLevels[cntLevel + 1].pointLimit
            s == IF N \div budget > 1 THEN N \div budget ELSE 1
        IN  /\ cntSampled.count = N \div s
            /\ (N \div s) - 1 \in DOMAIN cntSampled.positionsRead
            /\ \A i \in DOMAIN cntSampled.positionsRead :
                  /\ i * s < N
                  /\ cntSampled.positionsRead[i] = << 3 * (i * s) + 1, 3 * (i * s) + 2, 3 * (i * s) + 3 >>
                  /\ cntSampled.colorsRead[i] = cntSampled.positionsRead[i]

\* a resample with stride 3 whose last displayed point is the last canonical triple read
C22_Witness ==
    /\ cntSampled # Null
    /\ cntPoints \div lodLevels[cntLevel + 1].pointLimit = 3
    /\ cntPoints % 3 = 0
    /\ cntSampled.count = cntPoints \div 3
    /\ cntSampled.positionsRead[cntSampled.count - 1][3] = 3 * (cntPoints - 3) + 3

\* the target maximum dimension the loader that handled the raster selects
SelectedTarget(loader, totalPixels) ==
    IF loader = "loadGeoTIFF" THEN targetResolutionFor(totalPixels)
    ELSE largeTargetResolutionFor(totalPixels)

\* C23: the target maximum dimension a load selects is non-increasing in the
\* pixel count (no raster with fewer pixels gets a smaller target from the
\* same loader), and a raster with fewer pixels than every threshold gets the
\* largest target of the table.
C23_TargetMonotone ==
    (rasterOut # Null /\ raster.decodes) =>
        LET target == SelectedTarget(rasterOut.loader, raster.width * raster.height)
        IN  /\ \A w \in RasterDims, h \in RasterDims :
                  w * h <= raster.width * raster.height =>
                      SelectedTarget(rasterOut.loader, w * h) >= target
            /\ raster.width * raster.height <= 1000000 =>
                  \A w \in RasterDims, h \in RasterDims :
                      SelectedTarget(rasterOut.loader, w * h) <= target

\* C24: the width and height a resolved load hands to the terrain mesh
\* builder have max(width, height) at most the target the load selected,
\* width = floor(originalWidth * target / maxDimension) when the raster
\* exceeds the target, and so at most target * target vertices.
C24_GridWithinTarget ==
    (rasterOut # Null /\ rasterOut.status = "resolved") =>
        LET target == SelectedTarget(rasterOut.loader, raster.width * raster.height)
            maxDimension == MaxNat(raster.width, raster.height)
        IN  /\ MaxNat(rasterOut.width, rasterOut.height) <= target
            /\ maxDimension > target =>
                  /\ rasterOut.width = (raster.width * target) \div maxDimension
                  /\ rasterOut.height = (raster.height * target) \div maxDimension
            /\ rasterOut.width * rasterOut.height <= target * target

\* the finite samples of a grid that are neither no-data nor invalid
ValidSamples(data) ==
    { data[j] : j \in { k \in 1..Len(data) : ~IsNoDataOrInvalid(data[k]) /\ IsFinite(data[k]) } }

\* C25: with min and max the least and greatest valid sample of the grid,
\* normalizeElevationData maps every valid sample v to (v - min) / (max - min)
\* when max > min, a value in [0, 1] that is 0 for min and 1 for max, and to
\* 0.5 when max = min.
C25_NormalizedByRange ==
    (elevOut # Null /\ ValidSamples(elevIn) # {}) =>
        LET valid == ValidSamples(elevIn)
            min == CHOOSE m \in valid : \A v \in valid : Leq(m, v)
            max == CHOOSE m \in valid : \A v \in valid : Leq(v, m)
        IN  \A j \in 1..Len(elevIn) :
                elevIn[j] \in valid =>
                    IF Lt(min, max)
                    THEN /\ elevOut.array[j] = Div(Sub(elevIn[j], min), Sub(max, min))
                         /\ Leq(Number(0), elevOut.array[j])
                         /\ Leq(elevOut.array[j], Number(1))
                         /\ elevIn[j] = min => elevOut.array[j] = Number(0)
                         /\ elevIn[j] = max => elevOut.array[j] = Number(1)
                    ELSE elevOut.array[j] = Half

\* a band with at least one sample and none that is a finite measurement
NoValidSample(band) ==
    /\ Len(band) > 0
    /\ \A j \in 1..Len(band) : IsNoDataOrInvalid(band[j]) \/ ~IsFinite(band[j])

\* C26: a grid without a valid sample still ends in a built mesh, and the
\* elevation bounds the build works with are min = 0 and max = 100.
C26_DefaultBounds ==
    (meshOut # Null /\ NoValidSample(gridIn.bands[1])) =>
        /\ meshOut.built
        /\ meshOut.minElevation = Number(0)
        /\ meshOut.maxElevation = Number(100)

\* the step table of vertical exaggeration as stated
StatedExaggeration(R) ==
    IF Lt(R, Number(10)) THEN Number(10)
    ELSE IF Lt(R, Number(100)) THEN Number(5)
    ELSE IF Lt(R, Number(500)) THEN Number(2)
    ELSE Number(1)

\* C27: a mesh built from a grid whose valid samples span the range
\* R = max - min is exaggerated vertically by 10 if R < 10, 5 if R < 100,
\* 2 if R < 500 and 1 otherwise.
C27_ExaggerationByRange ==
    (/\ meshOut # Null
     /\ meshOut.built
     /\ Len(gridIn.bands[1]) = gridIn.width * gridIn.height
     /\ ValidSamples(gridIn.bands[1]) # {}) =>
        LET valid == ValidSamples(gridIn.bands[1])
            min == CHOOSE m \in valid : \A v \in valid : Leq(m, v)
            max == CHOOSE m \in valid : \A v \in valid : Leq(v, m)
        IN  meshOut.exaggeration = StatedExaggeration(Sub(max, min))

\* the world Y of vertex j of a mesh after its translation
FinalY(mesh, j) == Add(mesh.heights[j], mesh.offsetY)

\* C28: in every built terrain mesh the least final world Y over all
\* vertices, after the mesh translation, is exactly 0.
C28_LowestPointAtZero ==
    (meshOut # Null /\ meshOut.built /\ meshOut.vertexCount > 0) =>
        /\ \A j \in 1..meshOut.vertexCount : Leq(Number(0), FinalY(meshOut, j))
        /\ \E j \in 1..meshOut.vertexCount : FinalY(meshOut, j) = Number(0)

CachedKeys(cache) == { cache[i].key : i \in 1..Len(cache) }

\* the key whose entry was inserted before every other entry
OldestInserted(cache) ==
    cache[CHOOSE i \in 1..Len(cache) : \A j \in 1..Len(cache) : cache[i].inserted <= cache[j].inserted].key

\* C29: after every step of any run of loadTileFromCOG calls, overlapping or
\* not, the cache holds at most maxCacheSize entries; a key leaves the cache
\* only when an insertion takes it past the limit, and then it is exactly the
\* oldest-inserted key; a call that hits returns the stored tile and leaves
\* the entries and their order as they were.
C29_CacheBounded ==
    [][ /\ Len(cogCache') <= maxCacheSize
        /\ LET gone == CachedKeys(cogCache) \ CachedKeys(cogCache')
               come == CachedKeys(cogCache') \ CachedKeys(cogCache)
           IN  /\ gone # {} =>
                     /\ Len(cogCache) = maxCacheSize
                     /\ Cardinality(come) = 1
                     /\ gone = { OldestInserted(cogCache) }
               /\ (come # {} /\ Len(cogCache) = maxCacheSize) => gone # {}
        /\ (cogReturned' # cogReturned /\ ~cogReturned'.hit) =>
               /\ cacheHas(cogCache', cogReturned'.key)
               /\ cacheGet(cogCache', cogReturned'.key) = cogReturned'.tile
               /\ CachedKeys(cogCache') =
                     IF Len(cogCache) = maxCacheSize /\ ~cacheHas(cogCache, cogReturned'.key)
                     THEN (CachedKeys(cogCache) \ { OldestInserted(cogCache) })
                              \cup { cogReturned'.key }
                     ELSE CachedKeys(cogCache) \cup { cogReturned'.key }
        /\ (cogReturned' # cogReturned /\ cogReturned'.hit) =>
               /\ cogCache' = cogCache
               /\ cacheHas(cogCache, cogReturned'.key)
               /\ cogReturned'.tile = cacheGet(cogCache, cogReturned'.key) ]_vars

\* the cache is full, a key has been evicted, and the last call hit the
\* oldest entry while another load is in flight
C29_Witness ==
    /\ Len(cogCache) = maxCacheSize
    /\ cogEvicted # 0
    /\ ~cacheHas(cogCache, cogEvicted)
    /\ cogReturned # Null
    /\ cogReturned.hit
    /\ cogReturned.key = cogCache[1].key
    /\ cogPending # {}

=============================================================================
